---- MODULE Spec2Model ----
(***************************************************************************)
(* A model of ron-parser: the recursive-descent parser (src/src/parser.rs) *)
(* over the token type of src/src/token.rs, and the multi-file Loader of   *)
(* src/src/lib.rs that resolves #include and #prototype.                   *)
(*                                                                         *)
(* Text is a sequence of one-character strings, so that token text can be  *)
(* sliced and decoded as the code does.  Offsets and the parser's cursor   *)
(* are 0-based as in the source; Tok turns a 0-based index into a TLA+ one.*)
(***************************************************************************)
EXTENDS Integers, Sequences, FiniteSets, TLC

VARIABLES
    tokens,     \* Parser.tokens of the parse under way (ends in one Eof)
    parsed,     \* what Parser::parse returned, or NotRun
    fs,         \* the file system load runs against: canonical path -> file
    root,       \* the path handed to load
    loaded,     \* what load left behind and returned, or NotRun
    input,      \* the source text handed to Parser::new
    lexed,      \* what Lexer::scan returned inside Parser::new, or NotRun
    operands,   \* the two values handed to eq, cmp, partial_cmp and hash
    compared    \* what the comparisons returned, or NotRun

vars ==
    <<tokens, parsed, fs, root, loaded, input, lexed, operands, compared>>

NotRun == [done |-> FALSE]

\* Option<T>: None is the empty sequence, Some(x) the one-element sequence.
None == <<>>
Some(x) == <<x>>

\* The lists of ss joined in order (Vec::append, one list after another).
RECURSIVE Flatten(_)
Flatten(ss) == IF ss = <<>> THEN <<>> ELSE Head(ss) \o Flatten(Tail(ss))

(***************************************************************************)
(* Tokens (token.rs).                                                      *)
(***************************************************************************)
TokenKind ==
    {"LeftParen", "RightParen", "LeftBrace", "RightBrace", "LeftBracket",
     "RightBracket", "Comma", "Colon", "Hash", "Comment", "Whitespace",
     "Newline", "False", "True", "Ident", "Number", "String", "None", "Eof"}

Token(kind, text, start, end) ==
    [kind |-> kind, text |-> text, span |-> [start |-> start, end |-> end]]

\* The text of the words the parser compares identifiers with.
T_prototype == <<"p", "r", "o", "t", "o", "t", "y", "p", "e">>
T_include == <<"i", "n", "c", "l", "u", "d", "e">>

(***************************************************************************)
(* Values (value.rs).  An IndexMap is the sequence of its entries in       *)
(* insertion order, with no key twice.                                     *)
(***************************************************************************)
VBool(b) == [t |-> "Bool", b |-> b]
VInteger(i) == [t |-> "Number", num |-> [t |-> "Integer", i |-> i]]
VFloat(m, e) == [t |-> "Number", num |-> [t |-> "Float", m |-> m, e |-> e]]
VOptionNone == [t |-> "Option", some |-> None]
VString(s) == [t |-> "String", s |-> s]
VSeq(items) == [t |-> "Seq", items |-> items]
VTuple(name, items) == [t |-> "Tuple", name |-> name, items |-> items]
VStruct(name, prototype, fields) ==
    [t |-> "Struct", name |-> name, prototype |-> prototype, fields |-> fields]
VMap(entries) == [t |-> "Map", entries |-> entries]
VInclude(path) == [t |-> "Include", path |-> path]
VUnit == [t |-> "Unit"]

Entry(k, v) == [k |-> k, v |-> v]

Keys(entries) == [i \in 1..Len(entries) |-> entries[i].k]

ContainsKey(entries, k) == \E i \in 1..Len(entries) : entries[i].k = k

\* IndexMap::insert: an existing key keeps its place and takes the new value,
\* a new key is appended.  Keys are compared through Hash and Eq; on the keys
\* the parser can build from the modelled token texts these agree with
\* structural equality.
IndexInsert(entries, k, v) ==
    IF ContainsKey(entries, k)
    THEN [i \in 1..Len(entries) |->
            IF entries[i].k = k THEN Entry(k, v) ELSE entries[i]]
    ELSE Append(entries, Entry(k, v))

(***************************************************************************)
(* Diagnostics: an ariadne report is its message, the source id and offset *)
(* it was built with, its labels in order and its note.                    *)
(***************************************************************************)
Label(source, start, end, text) ==
    [source |-> source, start |-> start, end |-> end, text |-> text]

Diag(source, offset, msg, labels, note) ==
    [source |-> source, offset |-> offset, msg |-> msg, labels |-> labels,
     note |-> note]

(***************************************************************************)
(* Parser (parser.rs).  p is the immutable part of the Parser (tokens,     *)
(* source_path); ps is the mutable part: current, errors, and calls, the   *)
(* record of every struct_or_tuple call (which production it chose, where  *)
(* the cursor was, what came back), and values, the record of every value  *)
(* call.                                                                   *)
(* A result carries st: "ok", "err" (the Err of the code's Result, val is  *)
(* the report) or "panic" (an index or slice bound was violated).          *)
(***************************************************************************)
Res(st, ps, val) == [st |-> st, ps |-> ps, val |-> val]

\* The ? of the code: a result that is not "ok" is returned at once (an Err,
\* or a panic unwinding), an "ok" one is handed to what follows.
Try(r, Then(_)) == IF r.st # "ok" THEN r ELSE Then(r)

\* A let binding: the value is computed once and handed to what follows.
Let(x, Then(_)) == Then(x)

Tok(p, i) == p.tokens[i + 1]

Peek(p, ps) == Tok(p, ps.current)

Previous(p, ps) == Tok(p, ps.current - 1)

IsAtEnd(p, ps) == Peek(p, ps).kind = "Eof"

Advance(p, ps) ==
    IF ~IsAtEnd(p, ps) THEN [ps EXCEPT !.current = @ + 1] ELSE ps

Pos(p, ps) == Peek(p, ps).span.start

ErrorAt(p, ps, msg, labels, note) ==
    Diag(p.source_path, Pos(p, ps), msg, labels, note)

LabelSpan(p, start, end, text) == Label(p.source_path, start, end, text)

LabelHere(p, ps, text) ==
    Label(p.source_path, Peek(p, ps).span.start, Peek(p, ps).span.end, text)

Check2(p, ps, kind) ==
    /\ ps.current + 1 < Len(p.tokens)
    /\ Tok(p, ps.current + 1).kind = kind

Check3(p, ps, kind) ==
    /\ ps.current + 2 < Len(p.tokens)
    /\ Tok(p, ps.current + 2).kind = kind

CheckText3(p, ps, text) ==
    /\ ps.current + 2 < Len(p.tokens)
    /\ Tok(p, ps.current + 2).text = text

Consume(p, ps, kind) ==
    IF Peek(p, ps).kind = kind
    THEN [ok |-> TRUE, ps |-> Advance(p, ps)]
    ELSE [ok |-> FALSE, ps |-> ps]

Require(p, ps, kind) ==
    IF Peek(p, ps).kind = kind
    THEN Res("ok", Advance(p, ps), Peek(p, ps))
    ELSE Res("err", ps,
             ErrorAt(p, ps, <<"Unexpected token">>,
                     <<LabelHere(p, ps, <<"Expected", kind, "found",
                                          Peek(p, ps).kind>>)>>, None))

Ident(p, ps) ==
    IF Peek(p, ps).kind = "Ident"
    THEN Res("ok", Advance(p, ps), Peek(p, ps).text)
    ELSE Res("err", ps,
             ErrorAt(p, ps, <<"Unexpected token">>,
                     <<LabelHere(p, ps, <<"Expected identifier, found",
                                          Peek(p, ps).kind>>)>>, None))

(***************************************************************************)
(* Parser::string (parser.rs 290-333).  The String token is consumed if it *)
(* is there, and the text of the previous token is decoded whether or not  *)
(* it was: text[1..len-1] panics on a text shorter than two characters.    *)
(***************************************************************************)
Escapes == {"n", "r", "t", "\\", "\"", "0"}

\* An escape taken for the character after the backslash itself.
Unescape_Literal(c) == c

\* The character an escape stands for; control characters are named.
Unescape(c) ==
    CASE c = "n" -> "<LF>"
      [] c = "r" -> "<CR>"
      [] c = "t" -> "<TAB>"
      [] c = "0" -> "<NUL>"
      [] OTHER -> c

UnknownEscape(p, ps, i, c) ==
    Diag(p.source_path, Peek(p, ps).span.start + i - 1,
         <<"unknown character escape", c>>,
         <<LabelSpan(p, Peek(p, ps).span.start + i - 1,
                     Peek(p, ps).span.start + i, <<>>)>>,
         Some("Valid escape sequences"))

\* The loop over text[1..len-1].chars().enumerate(); i is the 0-based index.
RECURSIVE Decode(_, _, _, _, _, _)
Decode(p, ps, inner, i, escaped, out) ==
    IF i >= Len(inner) THEN Res("ok", ps, out)
    ELSE LET c == inner[i + 1] IN
         IF escaped
         THEN IF c \in Escapes
              THEN Decode(p, ps, inner, i + 1, FALSE, Append(out, Unescape(c)))
              ELSE Decode(p, [ps EXCEPT !.errors =
                                 Append(@, UnknownEscape(p, ps, i, c))],
                          inner, i + 1, FALSE, out)
         ELSE IF c = "\\"
              THEN Decode(p, ps, inner, i + 1, TRUE, out)
              ELSE Decode(p, ps, inner, i + 1, FALSE, Append(out, c))

StringText(p, ps1, text) ==
    IF Len(text) < 2 THEN Res("panic", ps1, "slice index out of range")
    ELSE Decode(p, ps1, SubSeq(text, 2, Len(text) - 1), 0, FALSE, <<>>)

String(p, ps) ==
    Let(Consume(p, ps, "String").ps, LAMBDA ps1 :
        IF ps1.current = 0 THEN Res("panic", ps1, "index out of bounds")
        ELSE StringText(p, ps1, Previous(p, ps1).text))

(***************************************************************************)
(* The number literal of Parser::value (parser.rs 67-84): str::parse::<i64>*)
(* and, when that fails, str::parse::<f64>.  A float is kept as the decimal*)
(* m * 10^e, normalised; the texts of the model stay far inside i64.       *)
(***************************************************************************)
Digits == {"0", "1", "2", "3", "4", "5", "6", "7", "8", "9"}

DigitVal(c) ==
    CASE c = "0" -> 0 [] c = "1" -> 1 [] c = "2" -> 2 [] c = "3" -> 3
      [] c = "4" -> 4 [] c = "5" -> 5 [] c = "6" -> 6 [] c = "7" -> 7
      [] c = "8" -> 8 [] c = "9" -> 9

RECURSIVE DigitsVal(_)
DigitsVal(s) ==
    IF s = <<>> THEN 0
    ELSE 10 * DigitsVal(SubSeq(s, 1, Len(s) - 1)) + DigitVal(s[Len(s)])

AllDigits(s) == \A i \in 1..Len(s) : s[i] \in Digits

HasSign(s) == s # <<>> /\ Head(s) \in {"+", "-"}

StripSign(s) == IF HasSign(s) THEN Tail(s) ELSE s

Signed(s, n) == IF s # <<>> /\ Head(s) = "-" THEN 0 - n ELSE n

IsI64(s) == StripSign(s) # <<>> /\ AllDigits(StripSign(s))

I64(s) == Signed(s, DigitsVal(StripSign(s)))

Positions(s, c) == {i \in 1..Len(s) : s[i] = c}

Without(s, c) == SelectSeq(s, LAMBDA x : x # c)

Min(S) == CHOOSE x \in S : \A y \in S : x <= y

Mantissa(s) ==
    Let(StripSign(s), LAMBDA b :
        IF Positions(b, "e") = {} THEN b
        ELSE SubSeq(b, 1, Min(Positions(b, "e")) - 1))

Exponent(s) ==
    Let(StripSign(s), LAMBDA b :
        IF Positions(b, "e") = {} THEN <<>>
        ELSE SubSeq(b, Min(Positions(b, "e")) + 1, Len(b)))

IsF64(s) ==
    /\ Let(Mantissa(s), LAMBDA mant :
           /\ Cardinality(Positions(mant, ".")) <= 1
           /\ Without(mant, ".") # <<>>
           /\ AllDigits(Without(mant, ".")))
    /\ \/ Positions(StripSign(s), "e") = {}
       \/ Let(StripSign(Exponent(s)), LAMBDA ex :
              ex # <<>> /\ AllDigits(ex))

RECURSIVE Normalise(_, _)
Normalise(m, e) ==
    IF m = 0 THEN VFloat(0, 0)
    ELSE IF m % 10 = 0 THEN Normalise(m \div 10, e + 1)
    ELSE VFloat(m, e)

\* The number of digits after the decimal point of a mantissa.
Fraction(mant, dots) == IF dots = {} THEN 0 ELSE Len(mant) - Min(dots)

\* The value of an exponent text, 0 when there is none.
ExponentVal(ex) ==
    IF ex = <<>> THEN 0 ELSE Signed(ex, DigitsVal(StripSign(ex)))

F64(s) ==
    Let(Mantissa(s), LAMBDA mant :
        Normalise(Signed(s, DigitsVal(Without(mant, "."))),
                  ExponentVal(Exponent(s))
                      - Fraction(mant, Positions(mant, "."))))

NumberText(p, ps1, text) ==
    IF IsI64(text) THEN Res("ok", ps1, VInteger(I64(text)))
    ELSE IF IsF64(text) THEN Res("ok", ps1, F64(text))
    ELSE Res("err", ps1,
             ErrorAt(p, ps1, <<"Malformed number", text>>,
                     <<LabelHere(p, ps1, <<>>)>>,
                     Some("Failed to parse number")))

\* The number arm with the token read and left where it is.
Number_NotConsumed(p, ps) == NumberText(p, ps, Peek(p, ps).text)

\* The arm of a Number token (parser.rs 67-84): the token is consumed and
\* its text parsed.
Number(p, ps) == NumberText(p, Advance(p, ps), Peek(p, ps).text)

(***************************************************************************)
(* The productions.  ? of the code is the early return of a result that  *)
(* is not "ok"; a panic unwinds through every caller.                      *)
(***************************************************************************)
RECURSIVE Value(_, _)
RECURSIVE StructLoop(_, _, _, _)
RECURSIVE TupleLoop(_, _, _)
RECURSIVE MapLoop(_, _, _)
RECURSIVE SeqLoop(_, _, _)

\* IsStruct without the check of the directive's name.
IsStruct_AnyDirective(p, ps) ==
    \/ Check2(p, ps, "Ident") /\ Check3(p, ps, "Colon")
    \/ Check2(p, ps, "Hash") /\ Check3(p, ps, "Ident")

\* struct_or_tuple's test (parser.rs 105-108), the cursor on the token that
\* follows the name, if there was one.
IsStruct(p, ps) ==
    \/ Check2(p, ps, "Ident") /\ Check3(p, ps, "Colon")
    \/ /\ Check2(p, ps, "Hash")
       /\ Check3(p, ps, "Ident")
       /\ CheckText3(p, ps, T_prototype)

\* AtClose never seeing the closing delimiter.
AtClose_Never(p, ps, close) == FALSE

\* The test that ends a loop after a trailing comma or on an empty body
\* (parser.rs 146, 177, 206, 236).
AtClose(p, ps, close) == Peek(p, ps).kind = close

\* The #prototype("path") item of a struct body (parser.rs 123-136), the
\* # consumed; val is the path.
PrototypeItem(p, ps) ==
    Try(Ident(p, ps), LAMBDA id :
        IF id.val # T_prototype
        THEN Res("err", id.ps,
                 ErrorAt(p, id.ps, <<"Unexpected token", Peek(p, id.ps).kind>>,
                         <<LabelHere(p, id.ps,
                                     <<"Expected prototype after # in struct, found",
                                       id.val>>)>>, None))
        ELSE Try(Require(p, id.ps, "LeftParen"), LAMBDA lp :
             Try(String(p, lp.ps), LAMBDA path :
             Try(Require(p, path.ps, "RightParen"), LAMBDA rp :
                 Res("ok", rp.ps, path.val)))))

\* The name: value item of a struct body (parser.rs 138-141); val is the
\* entry.
FieldItem(p, ps) ==
    Try(Require(p, ps, "Ident"), LAMBDA fn :
    Try(Require(p, fn.ps, "Colon"), LAMBDA co :
    Try(Value(p, co.ps), LAMBDA v :
        Res("ok", v.ps, Entry(fn.val.text, v.val)))))

\* After an item of a struct body (parser.rs 143-148): TRUE to go on.
StructAfterItem(p, ps) ==
    Let(Consume(p, ps, "Comma"), LAMBDA c :
        [more |-> c.ok /\ ~AtClose(p, c.ps, "RightParen"), ps |-> c.ps])

\* The end of one round of the loop, the item read into fields1, prototype1.
StructNext(p, ps, fields1, prototype1) ==
    Let(StructAfterItem(p, ps), LAMBDA a :
        IF a.more THEN StructLoop(p, a.ps, fields1, prototype1)
        ELSE Res("ok", a.ps, [fields |-> fields1, prototype |-> prototype1]))

StructLoop(p, ps, fields, prototype) ==
    Let(Consume(p, ps, "Hash"), LAMBDA h :
        IF h.ok
        THEN Try(PrototypeItem(p, h.ps), LAMBDA item :
                 StructNext(p, item.ps, fields, Some(item.val)))
        ELSE Try(FieldItem(p, ps), LAMBDA item :
                 StructNext(p, item.ps,
                            IndexInsert(fields, item.val.k, item.val.v),
                            prototype)))

\* The report with its second label on the offending token too.
MissingClose_BeginsHere(p, ps, found, close, begins, start, note) ==
    ErrorAt(p, ps, <<"Unexpected token", Peek(p, ps).kind>>,
            <<LabelHere(p, ps, <<"Expected", close, "found", found>>),
              LabelSpan(p, Pos(p, ps), Pos(p, ps), <<begins>>)>>,
            Some(note))

\* The report of a closing delimiter that is not there: a label on the
\* token found instead and a label where the construct began (parser.rs
\* 151-162, 212-223, 247-258).
MissingClose(p, ps, found, close, begins, start, note) ==
    ErrorAt(p, ps, <<"Unexpected token", Peek(p, ps).kind>>,
            <<LabelHere(p, ps, <<"Expected", close, "found", found>>),
              LabelSpan(p, start, start, <<begins>>)>>,
            Some(note))

Structure(p, ps, start, name) ==
    Let(Consume(p, ps, "LeftParen"), LAMBDA c :
        IF ~c.ok THEN Res("ok", ps, VStruct(name, None, <<>>))
        ELSE Try(StructLoop(p, c.ps, <<>>, None), LAMBDA l :
             Let(Consume(p, l.ps, "RightParen"), LAMBDA e :
                 IF ~e.ok
                 THEN Res("err", l.ps,
                          MissingClose(p, l.ps, Peek(p, l.ps).text, ")",
                                       "Struct begins here", start,
                                       "Expected ) at end of struct"))
                 ELSE Res("ok", e.ps,
                          VStruct(name, l.val.prototype, l.val.fields)))))

\* TupleResult folding every empty tuple into Unit, named or not.
TupleResult_FoldNamed(name, values) ==
    IF values = <<>> THEN VUnit ELSE VTuple(name, values)

\* What tuple returns once its elements are read (parser.rs 188-192).
TupleResult(name, values) ==
    IF values = <<>> /\ name = None THEN VUnit ELSE VTuple(name, values)

TupleLoop(p, ps, values) ==
    IF AtClose(p, ps, "RightParen") THEN Res("ok", ps, values)
    ELSE Try(Value(p, ps), LAMBDA v :
         Let(Consume(p, v.ps, "Comma"), LAMBDA c :
             IF c.ok THEN TupleLoop(p, c.ps, Append(values, v.val))
             ELSE Res("ok", c.ps, Append(values, v.val))))

\* Tuple demanding its ( instead of taking a missing one for no elements.
Tuple_ParenRequired(p, ps, start, name) ==
    Try(Require(p, ps, "LeftParen"), LAMBDA c :
    Try(TupleLoop(p, c.ps, <<>>), LAMBDA l :
    Try(Require(p, l.ps, "RightParen"), LAMBDA e :
        Res("ok", e.ps, TupleResult(name, l.val)))))

Tuple(p, ps, start, name) ==
    Let(Consume(p, ps, "LeftParen"), LAMBDA c :
        IF ~c.ok THEN Res("ok", ps, TupleResult(name, <<>>))
        ELSE Try(TupleLoop(p, c.ps, <<>>), LAMBDA l :
             Try(Require(p, l.ps, "RightParen"), LAMBDA e :
                 Res("ok", e.ps, TupleResult(name, l.val)))))

\* One struct_or_tuple call as calls keeps it: the production chosen, the
\* cursor and name at the call, what came back with the cursor then, and how
\* many reports the call added to errors.
Call(prod, at, name, errs, r) ==
    [prod |-> prod, at |-> at, name |-> name, st |-> r.st, val |-> r.val,
     end |-> r.ps.current, errs |-> Len(r.ps.errors) - errs]

\* The call written into calls of the result it returned.
Logged(prod, ps, name, r) ==
    [r EXCEPT !.ps.calls =
        Append(@, Call(prod, ps.current, name, Len(ps.errors), r))]

StructOrTuple(p, ps, start, name) ==
    IF IsStruct(p, ps)
    THEN Logged("structure", ps, name, Structure(p, ps, start, name))
    ELSE Logged("tuple", ps, name, Tuple(p, ps, start, name))

\* The end of one round of the loop, the entry inserted into fields1.
MapNext(p, ps, fields1) ==
    Let(Consume(p, ps, "Comma"), LAMBDA c :
        IF c.ok /\ ~AtClose(p, c.ps, "RightBrace")
        THEN MapLoop(p, c.ps, fields1)
        ELSE Res("ok", c.ps, fields1))

MapLoop(p, ps, fields) ==
    Try(Value(p, ps), LAMBDA k :
    Try(Require(p, k.ps, "Colon"), LAMBDA co :
    Try(Value(p, co.ps), LAMBDA v :
        MapNext(p, v.ps, IndexInsert(fields, k.val, v.val)))))

Map(p, ps) ==
    Try(Require(p, ps, "LeftBrace"), LAMBDA o :
    Try(MapLoop(p, o.ps, <<>>), LAMBDA l :
    Let(Consume(p, l.ps, "RightBrace"), LAMBDA e :
        IF ~e.ok
        THEN Res("err", l.ps,
                 MissingClose(p, l.ps, Peek(p, l.ps).text, "}",
                              "Map begins here", Pos(p, l.ps),
                              "Expected } at end of map"))
        ELSE Res("ok", e.ps, VMap(l.val)))))

SeqLoop(p, ps, values) ==
    IF AtClose(p, ps, "RightBracket") THEN Res("ok", ps, values)
    ELSE Try(Value(p, ps), LAMBDA v :
         Let(Consume(p, v.ps, "Comma"), LAMBDA c :
             IF c.ok THEN SeqLoop(p, c.ps, Append(values, v.val))
             ELSE Res("ok", c.ps, Append(values, v.val))))

\* A seq that ends without a report where a comma is not there.
ParseSeq_EndsSilently(p, ps) ==
    Try(Require(p, ps, "LeftBracket"), LAMBDA o :
    Try(SeqLoop(p, o.ps, <<>>), LAMBDA l :
    Let(Consume(p, l.ps, "RightBracket"), LAMBDA e :
        Res("ok", e.ps, VSeq(l.val)))))

\* Parser::seq (parser.rs 229-262).
ParseSeq(p, ps) ==
    Let(Pos(p, ps), LAMBDA start :
    Try(Require(p, ps, "LeftBracket"), LAMBDA o :
    Try(SeqLoop(p, o.ps, <<>>), LAMBDA l :
    Let(Consume(p, l.ps, "RightBracket"), LAMBDA e :
        IF ~e.ok
        THEN Res("err", l.ps,
                 MissingClose(p, l.ps, Peek(p, l.ps).text, "]",
                              "List begins here", start,
                              "Expected ] at end of list"))
        ELSE Res("ok", e.ps, VSeq(l.val))))))

\* The argument of a directive: (, a string, ) (parser.rs 269-271).
PathArgument(p, ps) ==
    Try(Require(p, ps, "LeftParen"), LAMBDA lp :
    Try(String(p, lp.ps), LAMBDA path :
    Try(Require(p, path.ps, "RightParen"), LAMBDA rp :
        Res("ok", rp.ps, path.val))))

Include(p, ps) ==
    Let(Pos(p, ps), LAMBDA start :
    Try(Require(p, ps, "Hash"), LAMBDA h :
    Try(Ident(p, h.ps), LAMBDA id :
        IF id.val = T_include
        THEN Try(PathArgument(p, id.ps), LAMBDA a :
                 Res("ok", a.ps, VInclude(a.val)))
        ELSE IF id.val = T_prototype
        THEN Res("err", id.ps,
                 ErrorAt(p, id.ps, <<"Unexpected #prototype directive">>,
                         <<LabelSpan(p, start, Peek(p, id.ps).span.end,
                                     <<"Only structs can have prototypes">>)>>,
                         None))
        ELSE Res("err", id.ps,
                 ErrorAt(p, id.ps, <<"Unknown directive", id.val>>,
                         <<LabelHere(p, id.ps, <<>>)>>, None)))))

ExpectedValue(p, ps) ==
    Res("err", ps,
        ErrorAt(p, ps, <<"Expected one of">>,
                <<LabelHere(p, ps, <<"Unexpected token at start of value",
                                     Peek(p, ps).kind>>)>>, None))

\* The arms of the match on the kind k of the next token (parser.rs 46-93).
ValueArm(p, ps, k) ==
    CASE k = "Ident" ->
             StructOrTuple(p, Advance(p, ps), Peek(p, ps).span.start,
                           Some(Peek(p, ps).text))
      [] k = "LeftParen" ->
             StructOrTuple(p, ps, Peek(p, ps).span.start, None)
      [] k = "LeftBrace" -> Map(p, ps)
      [] k = "LeftBracket" -> ParseSeq(p, ps)
      [] k = "False" -> Res("ok", Advance(p, ps), VBool(FALSE))
      [] k = "True" -> Res("ok", Advance(p, ps), VBool(TRUE))
      [] k = "None" -> Res("ok", Advance(p, ps), VOptionNone)
      [] k = "Number" -> Number(p, ps)
      [] k = "String" ->
             Try(String(p, ps), LAMBDA s : Res("ok", s.ps, VString(s.val)))
      [] k = "Hash" -> Include(p, ps)
      [] OTHER -> ExpectedValue(p, ps)

\* A value that drops the Err instead of keeping it in errors.
Recover_Silent(r) == IF r.st = "err" THEN Res("ok", r.ps, VUnit) ELSE r

\* An Err becomes one more entry of errors and the value Unit (parser.rs
\* 94-101).
Recover(r) ==
    IF r.st = "err"
    THEN Res("ok", [r.ps EXCEPT !.errors = Append(@, r.val)], VUnit)
    ELSE r

\* One value call as values keeps it: the cursor and the kind of the token
\* at the call; how the arm came back (arm), with the cursor (stopped), the
\* length of errors (reported) and its Err (failure) then; and what value
\* returned, with the cursor (end) and the length of errors (errs) then.
ValueCall(at, kind, arm, r) ==
    [at |-> at, kind |-> kind, arm |-> arm.st, stopped |-> arm.ps.current,
     reported |-> Len(arm.ps.errors),
     failure |-> IF arm.st = "err" THEN Some(arm.val) ELSE None,
     st |-> r.st, val |-> r.val, end |-> r.ps.current,
     errs |-> Len(r.ps.errors)]

\* The call written into values of the result it returned.
Returned(at, kind, arm, r) ==
    [r EXCEPT !.ps.values = Append(@, ValueCall(at, kind, arm, r))]

ValueFrom(p, ps, arm) ==
    Returned(ps.current, Peek(p, ps).kind, arm, Recover(arm))

\* Parser::value (parser.rs 45-102).
Value(p, ps) == ValueFrom(p, ps, ValueArm(p, ps, Peek(p, ps).kind))

\* Parser::new, the token list taken as the lexer left it (parser.rs 21-29).
NewParser(toks, source_path) == [tokens |-> toks, source_path |-> source_path]

NewState(lex_errors) ==
    [current |-> 0, errors |-> lex_errors, calls |-> <<>>, values |-> <<>>]

EndOfInput(p, ps) ==
    Diag(<<"a", "s", "d", "f">>, Pos(p, ps), <<"Expected end of input.">>,
         <<Label(<<"a", "s", "d", "f">>, Pos(p, ps), Pos(p, ps), <<>>)>>, None)

\* The errors of a parse that reports the end of input wherever it stops.
ParseErrors_AlwaysReports(p, ps) == Append(ps.errors, EndOfInput(p, ps))

\* The errors parse returns: one more report unless the cursor is on the
\* Eof token (parser.rs 33-41).
ParseErrors(p, ps) ==
    IF IsAtEnd(p, ps) THEN ps.errors
    ELSE Append(ps.errors, EndOfInput(p, ps))

\* Parser::parse (parser.rs 31-43) on a Parser whose state is ps0.
ParseFrom(p, ps0) ==
    Let(Value(p, ps0), LAMBDA v :
        IF v.st = "panic"
        THEN [done |-> TRUE, panic |-> TRUE, value |-> VUnit,
              errors |-> v.ps.errors, current |-> v.ps.current,
              calls |-> v.ps.calls, values |-> v.ps.values]
        ELSE [done |-> TRUE, panic |-> FALSE, value |-> v.val,
              errors |-> ParseErrors(p, v.ps),
              current |-> v.ps.current, calls |-> v.ps.calls,
              values |-> v.ps.values])

\* Parser::parse on a Parser whose token list came without lexer reports.
Parse(p) == ParseFrom(p, NewState(<<>>))

(***************************************************************************)
(* Inputs of the parser.  A token list is laid out as the lexer leaves the *)
(* source that joins the token texts with single spaces: spans follow the  *)
(* text lengths and the list ends in the one Eof token, whose span is one  *)
(* past the end of the text.                                               *)
(***************************************************************************)
K(kind, text) == <<kind, text>>

RECURSIVE LayFrom(_, _)
LayFrom(items, off) ==
    IF items = <<>> THEN <<>>
    ELSE LET it == Head(items) IN
         <<Token(it[1], it[2], off, off + Len(it[2]))>>
            \o LayFrom(Tail(items), off + Len(it[2]) + 1)

Lay(items) ==
    LET toks == LayFrom(items, 0)
        end == IF toks = <<>> THEN 0 ELSE toks[Len(toks)].span.end
    IN Append(toks, Token("Eof", <<>>, end, end + 1))

LP == K("LeftParen", <<"(">>)
RP == K("RightParen", <<")">>)
LB == K("LeftBracket", <<"[">>)
RB == K("RightBracket", <<"]">>)
LC == K("LeftBrace", <<"{">>)
RC == K("RightBrace", <<"}">>)
CM == K("Comma", <<",">>)
CL == K("Colon", <<":">>)
HS == K("Hash", <<"#">>)
Id(text) == K("Ident", text)
Num(text) == K("Number", text)
Str(text) == K("String", <<"\"">> \o text \o <<"\"">>)

\* The tokens short bodies are built from.
Alphabet ==
    {LP, RP, LB, RB, LC, RC, CM, CL, HS, Id(<<"a">>), Id(T_prototype),
     Num(<<"1">>), Str(<<"b">>)}

\* The longest body enumerated over the whole alphabet.
MaxBody == 3

SeqsUpTo(S, n) == UNION {[1..k -> S] : k \in 0..n}

\* What a body is put between: nothing, or the delimiters of a tuple or
\* struct (unnamed and named), a sequence and a map, each with and without a
\* trailing comma.
Wrappers ==
    {[pre |-> <<>>, post |-> <<>>]}
    \cup {[pre |-> o[1], post |-> c \o <<o[2]>>] :
            o \in {<<<<LP>>, RP>>, <<<<Id(<<"a">>), LP>>, RP>>,
                   <<<<LB>>, RB>>, <<<<LC>>, RC>>},
            c \in {<<>>, <<CM>>}}

\* Longer inputs: those of the tests of the repository (tests.rs) and the
\* directive forms, which no short body reaches.
Catalog ==
    { \* MyStruct(x:4,y:7,)  and  (x:4,y:7)
      <<Id(<<"S">>), LP, Id(<<"x">>), CL, Num(<<"4">>), CM, Id(<<"y">>), CL,
        Num(<<"7">>), CM, RP>>,
      <<LP, Id(<<"x">>), CL, Num(<<"4">>), CM, Id(<<"y">>), CL, Num(<<"7">>),
        RP>>,
      \* TupleStruct(2,5,)
      <<Id(<<"T">>), LP, Num(<<"2">>), CM, Num(<<"5">>), CM, RP>>,
      \* Config(version: 1, foo: bar)  and  Config(foo: bar, version: 1)
      <<Id(<<"C">>), LP, Id(<<"v">>), CL, Num(<<"1">>), CM, Id(<<"f">>), CL,
        Id(<<"b">>), RP>>,
      <<Id(<<"C">>), LP, Id(<<"f">>), CL, Id(<<"b">>), CM, Id(<<"v">>), CL,
        Num(<<"1">>), RP>>,
      \* G(#prototype("b"), n: "x", s: #include("c"),)
      <<Id(<<"G">>), LP, HS, Id(T_prototype), LP, Str(<<"b">>), RP, CM,
        Id(<<"n">>), CL, Str(<<"x">>), CM, Id(<<"s">>), CL, HS, Id(T_include),
        LP, Str(<<"c">>), RP, CM, RP>>,
      \* (#prototype("b"))  and  (#prototype("b"),)
      <<LP, HS, Id(T_prototype), LP, Str(<<"b">>), RP, RP>>,
      <<LP, HS, Id(T_prototype), LP, Str(<<"b">>), RP, CM, RP>>,
      \* #include("b")  and  (#include("b"))  and  #include(1)
      <<HS, Id(T_include), LP, Str(<<"b">>), RP>>,
      <<LP, HS, Id(T_include), LP, Str(<<"b">>), RP, RP>>,
      <<HS, Id(T_include), LP, Num(<<"1">>), RP>>,
      \* [1.50, -2, 1e, true, false, None, "a\nb\q"]
      <<LB, Num(<<"1", ".", "5", "0">>), CM, Num(<<"-", "2">>), CM,
        Num(<<"1", "e">>), CM, K("True", <<"t", "r", "u", "e">>), CM,
        K("False", <<"f", "a", "l", "s", "e">>), CM,
        K("None", <<"N", "o", "n", "e">>), CM,
        Str(<<"a", "\\", "n", "b", "\\", "q">>), RB>> }

Inputs ==
    {w.pre \o b \o w.post : w \in Wrappers, b \in SeqsUpTo(Alphabet, MaxBody)}
        \cup Catalog

SourceName == <<"<", "u", "n", "k", "n", "o", "w", "n", ">">>

(***************************************************************************)
(* The parser as a state machine: a token list is drawn, parse runs on it. *)
(***************************************************************************)
InitParser ==
    /\ tokens \in {Lay(i) : i \in Inputs}
    /\ parsed = NotRun
    /\ fs = <<>>
    /\ root = <<>>
    /\ loaded = NotRun
    /\ input = <<>>
    /\ lexed = NotRun
    /\ operands = <<>>
    /\ compared = NotRun

DoParse ==
    /\ ~parsed.done
    /\ parsed' = Parse(NewParser(tokens, SourceName))
    /\ UNCHANGED <<tokens, fs, root, loaded, input, lexed, operands, compared>>

NextParser == DoParse

SpecParser == InitParser /\ [][NextParser]_vars

(***************************************************************************)
(* Claims about the parser, checked under SpecParser.                      *)
(***************************************************************************)
\* The kind of the token at 0-based index i of the drawn list.
KindAt(i) == IF i + 1 <= Len(tokens) THEN tokens[i + 1].kind ELSE "<none>"

TextAt(i) == IF i + 1 <= Len(tokens) THEN tokens[i + 1].text ELSE <<>>

\* The drawn list as kind/text pairs, without its Eof.
Items == [i \in 1..(Len(tokens) - 1) |-> K(tokens[i].kind, tokens[i].text)]

Clean(r) == r.done /\ ~r.panic /\ r.errors = <<>>

\* The lookahead rule as the specification words it, from the ( at index at.
StructLookahead(at) ==
    \/ KindAt(at + 1) = "Ident" /\ KindAt(at + 2) = "Colon"
    \/ /\ KindAt(at + 1) = "Hash"
       /\ KindAt(at + 2) = "Ident"
       /\ TextAt(at + 2) = T_prototype

\* C7: a parenthesised form, named or unnamed, is parsed as a struct exactly
\* when the token after ( is an identifier immediately followed by a colon,
\* or # followed by the identifier prototype; otherwise as a tuple.  Every
\* struct_or_tuple call made on a ( chose structure exactly then, and what a
\* call returned is a Struct exactly then.
C7_StructExactlyOnLookahead ==
    parsed.done =>
        \A i \in 1..Len(parsed.calls) :
            LET c == parsed.calls[i] IN
            KindAt(c.at) = "LeftParen" =>
                /\ (c.prod = "structure") <=> StructLookahead(c.at)
                /\ (c.prod = "tuple") <=> ~StructLookahead(c.at)
                /\ c.st = "ok" =>
                     ((c.val.t = "Struct") <=> StructLookahead(c.at))
                /\ c.st = "ok" /\ ~StructLookahead(c.at) =>
                     c.val.t \in {"Tuple", "Unit"}

\* C7's case: a named ( whose body opens with #prototype was parsed as a
\* struct, and in the same parse a ( with neither lookahead was not.
C7_Witness ==
    /\ parsed.done
    /\ \E i \in 1..Len(parsed.calls) :
          /\ KindAt(parsed.calls[i].at) = "LeftParen"
          /\ KindAt(parsed.calls[i].at + 1) = "Hash"
          /\ parsed.calls[i].name # None
          /\ parsed.calls[i].prod = "structure"
          /\ parsed.calls[i].st = "ok"
          /\ parsed.calls[i].val.t = "Struct"

\* C8: a tuple with zero elements and no name parses to Unit; every other
\* tuple, including a named one with zero elements and an unnamed one with
\* one element, parses to Tuple(name, elements).  A tuple that was read to
\* its ) has zero elements exactly when the ) follows the ( directly.
C8_UnitOnlyForUnnamedEmpty ==
    parsed.done =>
        /\ \A i \in 1..Len(parsed.calls) :
              LET c == parsed.calls[i]
                  empty == KindAt(c.at) # "LeftParen"
                              \/ KindAt(c.at + 1) = "RightParen"
              IN c.prod = "tuple" /\ c.st = "ok" =>
                    IF empty /\ c.name = None THEN c.val = VUnit
                    ELSE /\ c.val.t = "Tuple"
                         /\ c.val.name = c.name
                         /\ (c.val.items = <<>>) <=> empty
        /\ Items = <<LP, RP>> => parsed.value = VUnit /\ Clean(parsed)
        /\ Items = <<Id(<<"a">>), LP, RP>> =>
              parsed.value = VTuple(Some(<<"a">>), <<>>) /\ Clean(parsed)
        /\ Items = <<LP, Num(<<"1">>), RP>> =>
              parsed.value = VTuple(None, <<VInteger(1)>>) /\ Clean(parsed)

\* C8's case: the named empty tuple a() has been parsed.
C8_Witness ==
    /\ parsed.done
    /\ Items = <<Id(<<"a">>), LP, RP>>
    /\ parsed.value.t = "Tuple"

Closers == {"RightParen", "RightBracket", "RightBrace"}

Openers == {"LeftParen", "LeftBracket", "LeftBrace"}

\* The drawn input is one struct, tuple, sequence or map with a non-empty
\* body and no trailing comma, and it parsed without a report.
CleanContainer ==
    /\ Clean(parsed)
    /\ Len(Items) >= 3
    /\ Items[Len(Items)][1] \in Closers
    /\ Items[Len(Items) - 1][1] \notin Openers \cup {"Comma"}
    /\ parsed.value.t \in {"Struct", "Tuple", "Seq", "Map"}

WithTrailingComma(items) ==
    SubSeq(items, 1, Len(items) - 1) \o <<CM, items[Len(items)]>>

\* C9: for a non-empty struct body, tuple, sequence or map, one trailing
\* comma after the last item gives the same value and no diagnostic.
C9_TrailingCommaSameValue ==
    CleanContainer =>
        LET r == Parse(NewParser(Lay(WithTrailingComma(Items)), SourceName))
        IN Clean(r) /\ r.value = parsed.value

\* C9's case: a map with one entry was parsed, with no report.
C9_Witness ==
    /\ CleanContainer
    /\ parsed.value.t = "Map"
    /\ Len(parsed.value.entries) = 1

\* C10: an identifier in value position that is not followed by ( parses to
\* Tuple(Some(name), []) with no diagnostic and consumes only the identifier,
\* whatever tokens follow it.
C10_BareIdentIsEmptyTuple ==
    parsed.done =>
        \A i \in 1..Len(parsed.calls) :
            LET c == parsed.calls[i] IN
            c.name # None /\ KindAt(c.at) # "LeftParen" =>
                /\ c.st = "ok"
                /\ c.val = VTuple(c.name, <<>>)
                /\ c.end = c.at
                /\ c.errs = 0

(***************************************************************************)
(* The Loader (lib.rs).  The files lie in one directory; a path names the  *)
(* file it canonicalizes to.  A file is readable text (kept as the tokens  *)
(* of its source), or exists but cannot be read as text, or is missing.    *)
(***************************************************************************)
Paths == {<<"a">>, <<"b">>, <<"c">>}

Missing == [kind |-> "missing"]
Unreadable == [kind |-> "unreadable"]
File(source) == [kind |-> "file", source |-> source]

\* origin.parent().join(path).canonicalize(): ./ names the same directory.
RECURSIVE Normalize(_)
Normalize(path) ==
    IF Len(path) >= 2 /\ path[1] = "." /\ path[2] = "/"
    THEN Normalize(SubSeq(path, 3, Len(path)))
    ELSE path

Canonicalize(files, path) ==
    Let(Normalize(path), LAMBDA c :
        IF c \in DOMAIN files /\ files[c].kind # "missing"
        THEN [ok |-> TRUE, path |-> c]
        ELSE [ok |-> FALSE, path |-> c])

\* The deepest nesting of Loader::load calls the stack has room for.
MaxDepth == 4

\* lib.rs parse (31-49) and _load (51-62): the Parse of one readable file.
LoadFile(files, path) ==
    Let(Parse(NewParser(Lay(files[path].source), path)), LAMBDA r :
        [panic |-> r.panic, value |-> r.value, errors |-> r.errors,
         sources |-> <<[name |-> path, source |-> files[path].source]>>])

\* Result of a step of the Loader: st is "ok", "io" (the Err of
\* std::io::Error), "todo" (the todo! of line 75), "panic" (the parser
\* panicked) or "overflow" (the call stack is exhausted).
LRes(st, ld, val) == [st |-> st, ld |-> ld, val |-> val]

\* MergePrototype with the prototype's fields taking precedence.
RECURSIVE MergePrototype_PrototypeWins(_, _)
MergePrototype_PrototypeWins(fields, pfields) ==
    IF pfields = <<>> THEN fields
    ELSE LET f == Head(pfields) IN
         MergePrototype_PrototypeWins(IndexInsert(fields, f.k, f.v),
                                      Tail(pfields))

\* The merge of lib.rs 102-106: each field of the prototype, in its order,
\* is inserted unless the struct has a field of that name.
RECURSIVE MergePrototype(_, _)
MergePrototype(fields, pfields) ==
    IF pfields = <<>> THEN fields
    ELSE LET f == Head(pfields) IN
         MergePrototype(IF ContainsKey(fields, f.k) THEN fields
                        ELSE IndexInsert(fields, f.k, f.v),
                        Tail(pfields))

RECURSIVE Load(_, _, _, _)
RECURSIVE Resolve(_, _, _, _, _)
RECURSIVE ResolveEach(_, _, _, _, _, _)

\* resolve applied to vals[i..] in order (the for loops of lib.rs 112-124).
ResolveEach(files, ld, vals, i, origin, depth) ==
    IF i > Len(vals) THEN LRes("ok", ld, vals)
    ELSE Try(Resolve(files, ld, vals[i], origin, depth), LAMBDA r :
             ResolveEach(files, r.ld, [vals EXCEPT ![i] = r.val], i + 1,
                         origin, depth))

Values(entries) == [i \in 1..Len(entries) |-> entries[i].v]

WithValues(entries, vals) ==
    [i \in 1..Len(entries) |-> Entry(entries[i].k, vals[i])]

\* The fields of a struct after its prototype resolved to pval (lib.rs
\* 99-109): merged when pval is a struct, left alone otherwise.
Merged(value, pval) ==
    IF pval.t = "Struct" THEN MergePrototype(value.fields, pval.fields)
    ELSE value.fields

\* The Loader after the prototype resolved to pval: a prototype that is not
\* a struct is only written to stderr (lib.rs 108).
Said(ld, pval) ==
    IF pval.t = "Struct" THEN ld
    ELSE [ld EXCEPT !.stderr = Append(@, <<"MUST BE STRUCT", pval>>)]

\* The fields of a struct resolved one by one (lib.rs 112-115); the
\* prototype is taken out of the struct (lib.rs 97).
ResolveFields(files, ld, name, fields, origin, depth) ==
    Try(ResolveEach(files, ld, Values(fields), 1, origin, depth), LAMBDA r :
        LRes("ok", r.ld, VStruct(name, None, WithValues(fields, r.val))))

\* Loader::resolve (lib.rs 89-135); val is the value as rewritten in place.
Resolve(files, ld, value, origin, depth) ==
    CASE value.t = "Include" ->
            Load(files, ld, value.path, depth + 1)
      [] value.t = "Struct" ->
            IF value.prototype = None
            THEN ResolveFields(files, ld, value.name, value.fields, origin,
                               depth)
            ELSE Try(Load(files, ld, value.prototype[1], depth + 1),
                     LAMBDA p :
                     ResolveFields(files, Said(p.ld, p.val), value.name,
                                   Merged(value, p.val), origin, depth))
      [] value.t = "Map" ->
            Try(ResolveEach(files, ld, Values(value.entries), 1, origin,
                            depth),
                LAMBDA r :
                LRes("ok", r.ld, VMap(WithValues(value.entries, r.val))))
      [] value.t = "Seq" ->
            Try(ResolveEach(files, ld, value.items, 1, origin, depth),
                LAMBDA r : LRes("ok", r.ld, VSeq(r.val)))
      [] OTHER -> LRes("ok", ld, value)

\* The Loader with path pushed on the resolution stack (lib.rs 79) and
\* handed to read_to_string (lib.rs 52).
Pushed(ld, path) ==
    [ld EXCEPT !.resolve_stack = Append(@, path), !.reads = Append(@, path)]

\* The Loader with the reports and sources of a Parse appended (lib.rs
\* 81-82).
Got(ld, parse) ==
    [ld EXCEPT !.errors = @ \o parse.errors, !.sources = @ \o parse.sources]

\* The Loader with the stack popped and the value cached (lib.rs 84-85).
Done(ld, path, val) ==
    [ld EXCEPT !.resolve_stack = SubSeq(@, 1, Len(@) - 1),
               !.cache = (path :> Some(val)) @@ @]

\* Loader::load from the read of the file on (lib.rs 79-86).
LoadNew(files, ld, path, depth) ==
    IF files[path].kind = "unreadable" THEN LRes("io", Pushed(ld, path), VUnit)
    ELSE Let(LoadFile(files, path), LAMBDA parse :
             IF parse.panic
             THEN LRes("panic", Got(Pushed(ld, path), parse), VUnit)
             ELSE Try(Resolve(files, Got(Pushed(ld, path), parse),
                              parse.value, path, depth),
                      LAMBDA r :
                      LRes("ok", Done(r.ld, path, r.val), r.val)))

\* Loader::load (lib.rs 72-87), called at nesting depth depth.
Load(files, ld, path, depth) ==
    IF depth > MaxDepth THEN LRes("overflow", ld, VUnit)
    ELSE Let(Canonicalize(files, path), LAMBDA c :
             IF ~c.ok THEN LRes("io", ld, VUnit)
             ELSE IF c.path \in DOMAIN ld.cache
             THEN IF ld.cache[c.path] = None THEN LRes("todo", ld, VUnit)
                  ELSE LRes("ok", ld, ld.cache[c.path][1])
             ELSE LoadNew(files, ld, c.path, depth))

\* The Loader that the public load builds (lib.rs 139-144); reads lists the
\* paths handed to read_to_string, in order, and stderr what eprintln wrote.
NewLoader ==
    [errors |-> <<>>, sources |-> <<>>, resolve_stack |-> <<>>,
     cache |-> <<>>, reads |-> <<>>, stderr |-> <<>>]

\* The public load (lib.rs 138-151): Ok carries value, errors and sources;
\* loader is the Loader as the call left it.
LoadRoot(files, path) ==
    Let(Load(files, NewLoader, path, 1), LAMBDA r :
        [done |-> TRUE, st |-> r.st, loader |-> r.ld,
         value |-> r.val,
         errors |-> IF r.st = "ok" THEN r.ld.errors ELSE <<>>,
         sources |-> IF r.st = "ok" THEN r.ld.sources ELSE <<>>])

(***************************************************************************)
(* The files load is run against: each path holds one of these sources, or *)
(* cannot be read, or is missing.                                          *)
(***************************************************************************)
IncludeOf(path) == <<HS, Id(T_include), LP, Str(path), RP>>

PrototypeOf(path) == <<HS, Id(T_prototype), LP, Str(path), RP>>

FileSources ==
    { \* B(x: 2, y: 3)
      <<Id(<<"B">>), LP, Id(<<"x">>), CL, Num(<<"2">>), CM, Id(<<"y">>), CL,
        Num(<<"3">>), RP>>,
      \* A(#prototype("b"), x: 1, z: #include("c"))
      <<Id(<<"A">>), LP>> \o PrototypeOf(<<"b">>)
         \o <<CM, Id(<<"x">>), CL, Num(<<"1">>), CM, Id(<<"z">>), CL>>
         \o IncludeOf(<<"c">>) \o <<RP>>,
      \* C(#prototype("a"), y: 1)
      <<Id(<<"C">>), LP>> \o PrototypeOf(<<"a">>)
         \o <<CM, Id(<<"y">>), CL, Num(<<"1">>), RP>>,
      \* #include("a")  and  #include("c")
      IncludeOf(<<"a">>),
      IncludeOf(<<"c">>),
      \* [#include("b"), #include("./b"), #include("c")]
      <<LB>> \o IncludeOf(<<"b">>) \o <<CM>>
         \o IncludeOf(<<".", "/", "b">>) \o <<CM>> \o IncludeOf(<<"c">>)
         \o <<RB>>,
      \* (#include("b"))
      <<LP>> \o IncludeOf(<<"b">>) \o <<RP>>,
      \* (S(#prototype("b"), x: 1), 1)
      <<LP, Id(<<"S">>), LP>> \o PrototypeOf(<<"b">>)
         \o <<CM, Id(<<"x">>), CL, Num(<<"1">>), RP, CM, Num(<<"1">>), RP>>,
      \* {#include("b"): #include("c")}
      <<LC>> \o IncludeOf(<<"b">>) \o <<CL>> \o IncludeOf(<<"c">>) \o <<RC>>,
      \* [1   (no closing bracket)  and  #include(1)
      <<LB, Num(<<"1">>)>>,
      <<HS, Id(T_include), LP, Num(<<"1">>), RP>>,
      \* 1
      <<Num(<<"1">>)>> }

FileSystems ==
    [Paths -> {File(src) : src \in FileSources} \cup {Missing, Unreadable}]

InitLoader ==
    /\ fs \in FileSystems
    /\ root \in {<<"a">>, <<".", "/", "b">>}
    /\ loaded = NotRun
    /\ tokens = <<>>
    /\ parsed = NotRun
    /\ input = <<>>
    /\ lexed = NotRun
    /\ operands = <<>>
    /\ compared = NotRun

\* The public load, run on root.
DoLoad ==
    /\ ~loaded.done
    /\ loaded' = LoadRoot(fs, root)
    /\ UNCHANGED <<tokens, parsed, fs, root, input, lexed, operands, compared>>

NextLoader == DoLoad

SpecLoader == InitLoader /\ [][NextLoader]_vars

(***************************************************************************)
(* Claims about the Loader, checked under SpecLoader.                      *)
(***************************************************************************)
RECURSIVE HasInclude(_)
RECURSIVE HasPrototype(_)
RECURSIVE RefsOf(_)

Children(v) ==
    CASE v.t = "Struct" -> Values(v.fields)
      [] v.t = "Map" -> Keys(v.entries) \o Values(v.entries)
      [] v.t \in {"Seq", "Tuple"} -> v.items
      [] OTHER -> <<>>

\* An Include node occurs somewhere in v: in a struct field, a sequence or
\* tuple element, a map value or a map key.
HasInclude(v) ==
    \/ v.t = "Include"
    \/ \E i \in 1..Len(Children(v)) : HasInclude(Children(v)[i])

\* A Struct with a prototype occurs somewhere in v.
HasPrototype(v) ==
    \/ v.t = "Struct" /\ v.prototype # None
    \/ \E i \in 1..Len(Children(v)) : HasPrototype(Children(v)[i])

\* The paths v names in its Include nodes and prototypes, canonical.
RefsOf(v) ==
    (IF v.t = "Include" THEN {Normalize(v.path)}
     ELSE IF v.t = "Struct" /\ v.prototype # None
     THEN {Normalize(v.prototype[1])} ELSE {})
    \cup UNION {RefsOf(Children(v)[i]) : i \in 1..Len(Children(v))}

Count(seq, x) == Cardinality({i \in 1..Len(seq) : seq[i] = x})

RootPath == Normalize(root)

\* root is a readable file that is nothing but an include of itself.
RootIncludesItself ==
    /\ fs[RootPath].kind = "file"
    /\ \E p \in {<<"a">>, <<"b">>, <<"c">>, <<".", "/", "a">>,
                 <<".", "/", "b">>} :
          /\ fs[RootPath].source = IncludeOf(p)
          /\ Normalize(p) = RootPath

\* C1: for any include/prototype graph in which a file references itself,
\* directly or transitively, load terminates and fails with a cycle error for
\* that branch; it never recurses without bound.  load never exhausts the
\* stack, never enters a file that is still on the resolution stack, and on
\* a root that includes itself it returns the cycle error.
C1_CycleFailsWithCycleError ==
    loaded.done =>
        /\ loaded.st # "overflow"
        /\ \A p \in Paths : Count(loaded.loader.resolve_stack, p) <= 1
        /\ RootIncludesItself => loaded.st = "cycle"

\* C2: whenever load returns a value, no Include node occurs anywhere in it.
C2_NoIncludeInResult ==
    loaded.done /\ loaded.st = "ok" => ~HasInclude(loaded.value)

\* C3: whenever load returns a value, every Struct anywhere in it has
\* prototype None.
C3_NoPrototypeInResult ==
    loaded.done /\ loaded.st = "ok" => ~HasPrototype(loaded.value)

ValueOf(entries, k) ==
    entries[CHOOSE i \in 1..Len(entries) : entries[i].k = k].v

\* The value the cache holds for a canonical path.
Cached(path) == loaded.loader.cache[path][1]

\* rv is what resolving the own field value sv gives: the cached value of the
\* file an Include names, and sv itself when nothing in it is to be resolved.
OwnValue(sv, rv) ==
    IF sv.t = "Include" THEN rv = Cached(Normalize(sv.path))
    ELSE IF ~HasInclude(sv) /\ ~HasPrototype(sv) THEN rv = sv
    ELSE TRUE

\* The file at path parsed to a struct with a prototype, and both it and its
\* prototype file were resolved, the prototype to a struct.
ResolvedWithPrototype(path) ==
    /\ loaded.done
    /\ path \in DOMAIN loaded.loader.cache
    /\ LoadFile(fs, path).value.t = "Struct"
    /\ LoadFile(fs, path).value.prototype # None
    /\ Normalize(LoadFile(fs, path).value.prototype[1])
          \in DOMAIN loaded.loader.cache
    /\ Cached(Normalize(LoadFile(fs, path).value.prototype[1])).t = "Struct"

\* C4: resolving a struct S whose prototype file resolves to a struct P
\* yields a struct with S's name, S's own fields in their original order and
\* with S's own values, followed by exactly those fields of P whose names S
\* lacks, in P's order (and with P's values).
C4_OwnFieldsThenInherited ==
    \A path \in Paths :
        ResolvedWithPrototype(path) =>
            LET S == LoadFile(fs, path).value
                P == Cached(Normalize(S.prototype[1]))
                R == Cached(path)
                own == Len(S.fields)
                inherited == SelectSeq(Keys(P.fields),
                                       LAMBDA k : ~ContainsKey(S.fields, k))
            IN /\ R.t = "Struct"
               /\ R.name = S.name
               /\ R.prototype = None
               /\ Keys(R.fields) = Keys(S.fields) \o inherited
               /\ \A i \in 1..own : OwnValue(S.fields[i].v, R.fields[i].v)
               /\ \A j \in 1..Len(inherited) :
                     R.fields[own + j].v = ValueOf(P.fields, inherited[j])

\* C4's case: load returned a struct whose prototype has a field the struct
\* overrides and a field the struct lacks.
C4_Witness ==
    /\ loaded.done
    /\ loaded.st = "ok"
    /\ ResolvedWithPrototype(RootPath)
    /\ LET S == LoadFile(fs, RootPath).value
           P == Cached(Normalize(S.prototype[1]))
       IN /\ \E i \in 1..Len(P.fields) : ContainsKey(S.fields, P.fields[i].k)
          /\ \E i \in 1..Len(P.fields) : ~ContainsKey(S.fields, P.fields[i].k)
          /\ \E i \in 1..Len(S.fields) : S.fields[i].v.t = "Include"

\* C5: within one load call each distinct canonical path is read and parsed
\* at most once, however many references reach it.
C5_EachPathReadOnce ==
    loaded.done => \A p \in Paths : Count(loaded.loader.reads, p) <= 1

\* The reports of the files load parsed, in the order it parsed them.
ParsedErrors ==
    Flatten([i \in 1..Len(loaded.loader.sources) |->
                LoadFile(fs, loaded.loader.sources[i].name).errors])

\* The paths named anywhere in the files load parsed.
Referenced ==
    UNION {RefsOf(LoadFile(fs, loaded.loader.sources[i].name).value) :
             i \in 1..Len(loaded.loader.sources)}

CanRead(path) == path \in DOMAIN fs /\ fs[path].kind = "file"

\* C6: load returns Ok, carrying the diagnostics of every file it parsed,
\* whenever every file reached during resolution is readable, even if some
\* have syntax errors; it returns an I/O error, outside the diagnostics, when
\* the root or a referenced file cannot be read.
C6_OkUnlessUnreadable ==
    loaded.done =>
        /\ (\A p \in Paths : CanRead(p)) =>
              loaded.st = "ok" /\ loaded.errors = ParsedErrors
        /\ ~CanRead(RootPath) => loaded.st = "io" /\ loaded.errors = <<>>
        /\ loaded.st = "ok" => \A p \in Referenced : CanRead(p)

(***************************************************************************)
(* Further claims about the parser, checked under SpecParser.              *)
(***************************************************************************)
\* Config(version: 1, foo: bar) of test_unit_struct, names shortened.
ConfigFooBar ==
    <<Id(<<"C">>), LP, Id(<<"v">>), CL, Num(<<"1">>), CM, Id(<<"f">>), CL,
      Id(<<"b">>), RP>>

\* The text of a label or message names the token spelled s.
Mentions(text, s) == \E i \in 1..Len(text) : text[i] = s

Lower ==
    {"a", "b", "c", "d", "e", "f", "g", "h", "i", "j", "k", "l", "m", "n",
     "o", "p", "q", "r", "s", "t", "u", "v", "w", "x", "y", "z"}

Upper ==
    {"A", "B", "C", "D", "E", "F", "G", "H", "I", "J", "K", "L", "M", "N",
     "O", "P", "Q", "R", "S", "T", "U", "V", "W", "X", "Y", "Z"}

IdentStart == {"_"} \cup Lower \cup Upper

IdentChars == IdentStart \cup Digits

NumberChars == Digits \cup {"-", "+", ".", "e"}

\* Lexer::peek with the cursor at current; "\n" is the line feed.
LexPeek(src, current) ==
    IF current < Len(src) THEN Some(src[current + 1]) ELSE None

\* The cursor after the loop that advances while the next character is in
\* chars (Lexer::number, Lexer::ident).
RECURSIVE ScanWhileIn(_, _, _)
ScanWhileIn(src, current, chars) ==
    IF LexPeek(src, current) # None /\ LexPeek(src, current)[1] \in chars
    THEN ScanWhileIn(src, current + 1, chars)
    ELSE current

\* The cursor after the loop of a line comment (lexer.rs 87-89).
RECURSIVE ScanLineComment(_, _)
ScanLineComment(src, current) ==
    IF LexPeek(src, current) # None /\ LexPeek(src, current) # Some("\n")
    THEN ScanLineComment(src, current + 1)
    ELSE current

\* The cursor after the loop of a block comment (lexer.rs 92-96); previous
\* is the local the loop tests and never assigns.
RECURSIVE ScanBlockComment(_, _, _)
ScanBlockComment(src, current, previous) ==
    IF /\ LexPeek(src, current) # None
       /\ (LexPeek(src, current) # Some("/") \/ previous # "*")
    THEN ScanBlockComment(src, current + 1, previous)
    ELSE current

\* Lexer::string (lexer.rs 141-149), the opening quote consumed: the cursor
\* after the loop.  The advance that finds the end of the text counts too.
RECURSIVE ScanString(_, _, _)
ScanString(src, current, escaped) ==
    IF LexPeek(src, current) = None THEN current + 1
    ELSE IF LexPeek(src, current) = Some("\"") /\ ~escaped THEN current + 1
    ELSE ScanString(src, current + 1, src[current + 1] = "\\")

\* The report of a character no token starts with (lexer.rs 117-119); the
\* Lexer's reports carry no source id.
UnexpectedCharacter(c, current) ==
    Diag(<<>>, current, <<"Unexpected character", c>>,
         <<Label(<<>>, current - 1, current, <<>>)>>, None)

Scanned(st, kind, current) == [st |-> st, kind |-> kind, current |-> current]

\* The arm of a / (lexer.rs 85-101), the / consumed.
ScanSlash(src, current) ==
    IF LexPeek(src, current) = Some("/")
    THEN Scanned("ok", "Comment", ScanLineComment(src, current + 1))
    ELSE IF LexPeek(src, current) = Some("*")
    THEN Scanned("ok", "Comment", ScanBlockComment(src, current + 1, " "))
    ELSE Scanned("panic", "todo!()", current)

\* The match on the first character c of a token (lexer.rs 76-121), c
\* consumed.
ScanChar(src, current, c) ==
    CASE c = "(" -> Scanned("ok", "LeftParen", current)
      [] c = ")" -> Scanned("ok", "RightParen", current)
      [] c = "{" -> Scanned("ok", "LeftBrace", current)
      [] c = "}" -> Scanned("ok", "RightBrace", current)
      [] c = "[" -> Scanned("ok", "LeftBracket", current)
      [] c = "]" -> Scanned("ok", "RightBracket", current)
      [] c = ":" -> Scanned("ok", "Colon", current)
      [] c = "," -> Scanned("ok", "Comma", current)
      [] c = "/" -> ScanSlash(src, current)
      [] c \in {" ", "\r", "\t"} -> Scanned("ok", "Whitespace", current)
      [] c = "\n" -> Scanned("ok", "Newline", current)
      [] c \in Digits \cup {"-"} ->
             Scanned("ok", "Number", ScanWhileIn(src, current, NumberChars))
      [] c = "\"" -> Scanned("ok", "String", ScanString(src, current, FALSE))
      [] c \in IdentStart ->
             Scanned("ok", "Ident", ScanWhileIn(src, current, IdentChars))
      [] OTHER -> Scanned("err", UnexpectedCharacter(c, current), current)

\* Lexer::scan_token (lexer.rs 73-124) with the cursor at start.
ScanToken(src, start) ==
    IF LexPeek(src, start) = None THEN Scanned("ok", "Eof", start + 1)
    ELSE ScanChar(src, start + 1, src[start + 1])

\* The kind of an identifier token with this text (lexer.rs 48-55).
Keyword(text) ==
    CASE text = <<"t", "r", "u", "e">> -> "True"
      [] text = <<"f", "a", "l", "s", "e">> -> "False"
      [] text = <<"N", "o", "n", "e">> -> "None"
      [] OTHER -> "Ident"

\* self.chars when a token from start to current is built: the characters
\* advance returned.
Chars(src, start, current) ==
    IF start >= Len(src) THEN <<>>
    ELSE SubSeq(src, start + 1, IF current < Len(src) THEN current ELSE Len(src))

\* The token pushed for a scanned kind (lexer.rs 39-57).
Spanned(src, start, t) ==
    Token(IF t.kind = "Ident" THEN Keyword(Chars(src, start, t.current))
          ELSE t.kind,
          Chars(src, start, t.current), start, t.current)

\* The loop of Lexer::scan (lexer.rs 35-69).
RECURSIVE ScanLoop(_, _, _, _)
ScanStep(src, start, toks, errs, t) ==
    IF t.st = "panic"
    THEN [done |-> TRUE, panic |-> TRUE, tokens |-> toks, errors |-> errs]
    ELSE IF t.st = "err"
    THEN ScanLoop(src, t.current, toks, Append(errs, t.kind))
    ELSE IF t.kind \in {"Whitespace", "Comment", "Newline"}
    THEN ScanLoop(src, t.current, toks, errs)
    ELSE IF t.kind = "Eof"
    THEN [done |-> TRUE, panic |-> FALSE,
          tokens |-> Append(toks, Spanned(src, start, t)), errors |-> errs]
    ELSE ScanLoop(src, t.current, Append(toks, Spanned(src, start, t)), errs)

ScanLoop(src, start, toks, errs) ==
    ScanStep(src, start, toks, errs, ScanToken(src, start))

\* Lexer::new and Lexer::scan (lexer.rs 21-71).
Scan(src) == ScanLoop(src, 0, <<>>, <<>>)

(***************************************************************************)
(* Parsing from source text: Parser::new runs the Lexer over the text and  *)
(* Parser::parse runs on the tokens and reports it left (parser.rs 21-43). *)
(***************************************************************************)
\* #include("p")
IncludeText ==
    <<"#", "i", "n", "c", "l", "u", "d", "e", "(", "\"", "p", "\"", ")">>

\* S(#prototype("p"), x: 1)
PrototypeText ==
    <<"S", "(", "#", "p", "r", "o", "t", "o", "t", "y", "p", "e", "(",
        "\"", "p", "\"", ")", ",", " ", "x", ":", " ", "1", ")">>

\* Config(version: 1,) of the test lexer, names shortened
SimpleStructText ==
    <<"C", "(", "\n", " ", "v", ":", " ", "1", ",", "\n", ")">>

\* /* a */ 1
BlockCommentText ==
    <<"/", "*", " ", "a", " ", "*", "/", " ", "1">>

\* a line comment, then 1 on the next line
LineCommentText ==
    <<"/", "/", " ", "a", "\n", "1">>

\* [true, false, None, nil]
KeywordsText ==
    <<"[", "t", "r", "u", "e", ",", " ", "f", "a", "l", "s", "e", ",",
        " ", "N", "o", "n", "e", ",", " ", "n", "i", "l", "]">>

\* the strings a\nb, \\, \" and \q in a list
EscapesText ==
    <<"[", "\"", "a", "\\", "n", "b", "\"", ",", " ", "\"", "\\", "\\",
        "\"", ",", " ", "\"", "\\", "\"", "\"", ",", " ", "\"", "\\",
        "q", "\"", "]">>

\* test_missing_closing_bracket, shortened
MissingBracketText ==
    <<"[", "\n", " ", "\"", "a", "\n", "b", "\"", "\n">>

\* [1 2]
NoCommaText ==
    <<"[", "1", " ", "2", "]">>

\* Texts of the tests and of the forms the claims name.
Texts ==
    {IncludeText, PrototypeText, SimpleStructText, BlockCommentText,
     LineCommentText, KeywordsText, EscapesText, MissingBracketText,
     NoCommaText}

\* The characters short texts are built from.
TextAlphabet == {"#", "a", "1", "(", ")", "[", "\"", "\\", "/", "*", " ", "\n"}

\* The longest text enumerated over the whole alphabet.
MaxText == 3

Sources == SeqsUpTo(TextAlphabet, MaxText) \cup Texts

InitSource ==
    /\ input \in Sources
    /\ lexed = NotRun
    /\ tokens = <<>>
    /\ parsed = NotRun
    /\ fs = <<>>
    /\ root = <<>>
    /\ loaded = NotRun
    /\ operands = <<>>
    /\ compared = NotRun

\* Parser::new: the text is scanned and the tokens kept.
NewFromSource ==
    /\ ~lexed.done
    /\ lexed' = Scan(input)
    /\ tokens' = lexed'.tokens
    /\ UNCHANGED <<parsed, fs, root, loaded, input, operands, compared>>

\* Parser::parse on the Parser that Parser::new built; its errors start as
\* the reports of the Lexer.
ParseSource ==
    /\ lexed.done
    /\ ~lexed.panic
    /\ ~parsed.done
    /\ parsed' = ParseFrom(NewParser(tokens, SourceName),
                           NewState(lexed.errors))
    /\ UNCHANGED <<tokens, fs, root, loaded, input, lexed, operands, compared>>

NextSource == NewFromSource \/ ParseSource

SpecSource == InitSource /\ [][NextSource]_vars

\* C12: parsing the text #include("p") yields Include(p), and the text
\* S(#prototype("p"), x: 1) yields the struct S with prototype p and the one
\* field x, both without any diagnostic, from the raw text through the
\* lexer.
C12_DirectivesFromText ==
    parsed.done =>
        /\ input = IncludeText =>
              Clean(parsed) /\ parsed.value = VInclude(<<"p">>)
        /\ input = PrototypeText =>
              /\ Clean(parsed)
              /\ parsed.value =
                    VStruct(Some(<<"S">>), Some(<<"p">>),
                            <<Entry(<<"x">>, VInteger(1))>>)


(***************************************************************************)
(* Equality, ordering and hashing of values (value.rs).  An Ordering is    *)
(* "Less", "Equal" or "Greater"; "panic" is a call that panicked.  A hash   *)
(* is the sequence of the words a value writes to the Hasher.               *)
(***************************************************************************)

\* Further floats: Float::new takes any f64.
FloatNaN(payload) ==
    [t |-> "Number", num |-> [t |-> "Float", nan |-> payload]]
FloatInfinity(negative) ==
    [t |-> "Number", num |-> [t |-> "Float", inf |-> negative]]
FloatNegZero ==
    [t |-> "Number", num |-> [t |-> "Float", m |-> 0, e |-> 0, negzero |-> TRUE]]
VOptionSome(v) == [t |-> "Option", some |-> Some(v)]

\* Ord for integers.
OrdOf(x, y) == IF x < y THEN "Less" ELSE IF x > y THEN "Greater" ELSE "Equal"

\* Lexicographic comparison: the first answer that is not Equal.
ThenCmp(o, rest) == IF o = "Equal" THEN rest ELSE o

ThenPartialCmp(o, rest) == IF o = Some("Equal") THEN rest ELSE o

\* The characters of the names in use, in code point order.
Ascii ==
    <<"0", "1", "2", "3", "4", "5", "6", "7", "8", "9",
      "A", "B", "C", "D", "E", "F", "G", "H", "I", "J", "K", "L", "M",
      "N", "O", "P", "Q", "R", "S", "T", "U", "V", "W", "X", "Y", "Z", "_",
      "a", "b", "c", "d", "e", "f", "g", "h", "i", "j", "k", "l", "m",
      "n", "o", "p", "q", "r", "s", "t", "u", "v", "w", "x", "y", "z">>

Code(c) == CHOOSE i \in 1..Len(Ascii) : Ascii[i] = c

\* Ord for String: byte-wise, a proper prefix is Less.
RECURSIVE StrCmp(_, _)
StrCmp(s, t) ==
    IF s = <<>> THEN (IF t = <<>> THEN "Equal" ELSE "Less")
    ELSE IF t = <<>> THEN "Greater"
    ELSE ThenCmp(OrdOf(Code(Head(s)), Code(Head(t))),
                 StrCmp(Tail(s), Tail(t)))

\* Ord for Option<String>: None is less than Some.
OptionStrCmp(x, y) ==
    IF x = None THEN (IF y = None THEN "Equal" ELSE "Less")
    ELSE IF y = None THEN "Greater"
    ELSE StrCmp(x[1], y[1])

RECURSIVE Pow10(_)
Pow10(n) == IF n = 0 THEN 1 ELSE 10 * Pow10(n - 1)

is_nan(f) == "nan" \in DOMAIN f

IsInfinite(f) == "inf" \in DOMAIN f

\* Where an f64 that is no NaN stands: -infinity, finite, +infinity.
F64Rank(f) == IF IsInfinite(f) THEN (IF f.inf THEN -1 ELSE 1) ELSE 0

\* m * 10^e of a finite f64 as a multiple of 10^lo.
Scaled(f, lo) == f.m * Pow10(f.e - lo)

\* The order of two f64 that are no NaN; -0.0 and 0.0 are the same number.
F64Order(f, g) ==
    IF F64Rank(f) # F64Rank(g) \/ IsInfinite(f)
    THEN OrdOf(F64Rank(f), F64Rank(g))
    ELSE OrdOf(Scaled(f, IF f.e < g.e THEN f.e ELSE g.e),
               Scaled(g, IF f.e < g.e THEN f.e ELSE g.e))

\* f64 ==: a NaN equals nothing.
F64Eq(f, g) == ~is_nan(f) /\ ~is_nan(g) /\ F64Order(f, g) = "Equal"

\* f64::partial_cmp: None when either is a NaN.
F64PartialCmp(f, g) ==
    IF is_nan(f) \/ is_nan(g) THEN None ELSE Some(F64Order(f, g))

\* A u64 word: n, or u64::MAX when max.
U64(max, n) == [max |-> max, n |-> n]

\* f64 as u64: a NaN is 0, a negative number is 0, +infinity saturates and
\* the rest is truncated.
AsU64(f) ==
    IF is_nan(f) THEN U64(FALSE, 0)
    ELSE IF IsInfinite(f) THEN U64(~f.inf, 0)
    ELSE IF f.m <= 0 THEN U64(FALSE, 0)
    ELSE IF f.e < 0 THEN U64(FALSE, f.m \div Pow10(-f.e))
    ELSE U64(FALSE, Scaled(f, 0))

\* PartialEq for Float.
FloatEq(f, g) == (is_nan(f) /\ is_nan(g)) \/ F64Eq(f, g)

\* PartialOrd of the f64 alone, with no arm for a NaN.
FloatPartialCmp_F64Only(f, g) == F64PartialCmp(f, g)

\* PartialOrd for Float.
FloatPartialCmp(f, g) ==
    IF is_nan(f) /\ is_nan(g) THEN Some("Equal")
    ELSE IF is_nan(f) THEN Some("Less")
    ELSE IF is_nan(g) THEN Some("Greater")
    ELSE F64PartialCmp(f, g)

\* The expect of Ord for Float.
Expect(o) == IF o = None THEN "panic" ELSE o[1]

\* Ord for Float.
FloatCmp(f, g) == Expect(FloatPartialCmp(f, g))

\* Hash for Float.
FloatHash(f) == <<AsU64(f)>>

\* The derives of Number: the variant first, Integer before Float.
NumberRank(n) == IF n.t = "Integer" THEN 0 ELSE 1

NumberEq(n, k) ==
    /\ n.t = k.t
    /\ IF n.t = "Integer" THEN n.i = k.i ELSE FloatEq(n, k)

NumberCmp(n, k) ==
    IF n.t # k.t THEN OrdOf(NumberRank(n), NumberRank(k))
    ELSE IF n.t = "Integer" THEN OrdOf(n.i, k.i)
    ELSE FloatCmp(n, k)

NumberPartialCmp(n, k) ==
    IF n.t # k.t THEN Some(OrdOf(NumberRank(n), NumberRank(k)))
    ELSE IF n.t = "Integer" THEN Some(OrdOf(n.i, k.i))
    ELSE FloatPartialCmp(n, k)

\* derive(Hash): the variant, then an i64 as its value (kept apart from the
\* u64 of a float by the variant written before it).
NumberHash(n) ==
    <<U64(FALSE, NumberRank(n))>>
        \o (IF n.t = "Integer" THEN <<U64(FALSE, n.i)>> ELSE FloatHash(n))

\* The place of a variant in the declaration of enum Value, which its
\* derived orderings compare first.
Discriminant(v) ==
    CASE v.t = "Bool" -> 0 [] v.t = "Char" -> 1 [] v.t = "Map" -> 2
      [] v.t = "Struct" -> 3 [] v.t = "Number" -> 4 [] v.t = "Option" -> 5
      [] v.t = "String" -> 6 [] v.t = "Seq" -> 7 [] v.t = "Tuple" -> 8
      [] v.t = "Include" -> 9 [] v.t = "Unit" -> 10

BoolRank(b) == IF b THEN 1 ELSE 0

RECURSIVE ValueEq(_, _)
RECURSIVE ValueCmp(_, _)
RECURSIVE ValuePartialCmp(_, _)

\* What an iterator yields: "Item" for the values of a Vec, "Value" for the
\* (Value, Value) entries of a Map, "String" for the (String, Value) entries
\* of a Struct.  A pair compares its key, then its value.
ItemEq(kind, x, y) ==
    IF kind = "Item" THEN ValueEq(x, y)
    ELSE IF kind = "String" THEN x.k = y.k /\ ValueEq(x.v, y.v)
    ELSE ValueEq(x.k, y.k) /\ ValueEq(x.v, y.v)

ItemCmp(kind, x, y) ==
    IF kind = "Item" THEN ValueCmp(x, y)
    ELSE IF kind = "String"
    THEN ThenCmp(StrCmp(x.k, y.k), ValueCmp(x.v, y.v))
    ELSE ThenCmp(ValueCmp(x.k, y.k), ValueCmp(x.v, y.v))

ItemPartialCmp(kind, x, y) ==
    IF kind = "Item" THEN ValuePartialCmp(x, y)
    ELSE IF kind = "String"
    THEN ThenPartialCmp(Some(StrCmp(x.k, y.k)), ValuePartialCmp(x.v, y.v))
    ELSE ThenPartialCmp(ValuePartialCmp(x.k, y.k), ValuePartialCmp(x.v, y.v))

\* zip(..).all(|(a, b)| a == b): the pairs up to the end of the shorter one.
ZipAll(kind, xs, ys) ==
    \A i \in 1..Len(xs) : i <= Len(ys) => ItemEq(kind, xs[i], ys[i])

\* Iterator::cmp: the first pair that differs decides, and of two iterators
\* that agree the one that ends first is Less.
RECURSIVE IterCmp(_, _, _)
IterCmp(kind, xs, ys) ==
    IF xs = <<>> THEN (IF ys = <<>> THEN "Equal" ELSE "Less")
    ELSE IF ys = <<>> THEN "Greater"
    ELSE ThenCmp(ItemCmp(kind, Head(xs), Head(ys)),
                 IterCmp(kind, Tail(xs), Tail(ys)))

\* Iterator::partial_cmp.
RECURSIVE IterPartialCmp(_, _, _)
IterPartialCmp(kind, xs, ys) ==
    IF xs = <<>> THEN Some(IF ys = <<>> THEN "Equal" ELSE "Less")
    ELSE IF ys = <<>> THEN Some("Greater")
    ELSE ThenPartialCmp(ItemPartialCmp(kind, Head(xs), Head(ys)),
                        IterPartialCmp(kind, Tail(xs), Tail(ys)))

\* PartialEq for Vec: the lengths, then the items.
VecEq(xs, ys) == Len(xs) = Len(ys) /\ ZipAll("Item", xs, ys)

\* PartialEq for Map.
MapEq(x, y) == ZipAll("Value", x.entries, y.entries)

\* Ord for Map.
MapCmp(x, y) == IterCmp("Value", x.entries, y.entries)

\* PartialOrd for Map.
MapPartialCmp(x, y) == IterPartialCmp("Value", x.entries, y.entries)

\* PartialEq for Struct.
StructEq(x, y) ==
    /\ Len(x.fields) = Len(y.fields)
    /\ ZipAll("String", x.fields, y.fields)
    /\ x.name = y.name
    /\ x.prototype = y.prototype

\* Ord for Struct.
StructCmp(x, y) == IterCmp("String", x.fields, y.fields)

\* PartialOrd for Struct.
StructPartialCmp(x, y) ==
    IF OptionStrCmp(x.name, y.name) = "Equal"
    THEN IterPartialCmp("String", x.fields, y.fields)
    ELSE Some(OptionStrCmp(x.name, y.name))

\* The derives of Option<Box<Value>>: None is less than Some.
OptionEq(x, y) ==
    IF x = None \/ y = None THEN x = y ELSE ValueEq(x[1], y[1])

OptionCmp(x, y) ==
    IF x = None THEN (IF y = None THEN "Equal" ELSE "Less")
    ELSE IF y = None THEN "Greater"
    ELSE ValueCmp(x[1], y[1])

OptionPartialCmp(x, y) ==
    IF x = None THEN Some(IF y = None THEN "Equal" ELSE "Less")
    ELSE IF y = None THEN Some("Greater")
    ELSE ValuePartialCmp(x[1], y[1])

\* derive(PartialEq) for Value: the same variant with equal fields.
ValueEq(x, y) ==
    /\ x.t = y.t
    /\ CASE x.t = "Bool" -> x.b = y.b
         [] x.t = "Map" -> MapEq(x, y)
         [] x.t = "Struct" -> StructEq(x, y)
         [] x.t = "Number" -> NumberEq(x.num, y.num)
         [] x.t = "Option" -> OptionEq(x.some, y.some)
         [] x.t = "String" -> x.s = y.s
         [] x.t = "Seq" -> VecEq(x.items, y.items)
         [] x.t = "Tuple" -> x.name = y.name /\ VecEq(x.items, y.items)
         [] x.t = "Include" -> x.path = y.path
         [] x.t = "Unit" -> TRUE

\* derive(Ord) for Value: the variants in declaration order, then the
\* fields in order.
ValueCmp(x, y) ==
    IF x.t # y.t THEN OrdOf(Discriminant(x), Discriminant(y))
    ELSE CASE x.t = "Bool" -> OrdOf(BoolRank(x.b), BoolRank(y.b))
           [] x.t = "Map" -> MapCmp(x, y)
           [] x.t = "Struct" -> StructCmp(x, y)
           [] x.t = "Number" -> NumberCmp(x.num, y.num)
           [] x.t = "Option" -> OptionCmp(x.some, y.some)
           [] x.t = "String" -> StrCmp(x.s, y.s)
           [] x.t = "Seq" -> IterCmp("Item", x.items, y.items)
           [] x.t = "Tuple" ->
                ThenCmp(OptionStrCmp(x.name, y.name),
                        IterCmp("Item", x.items, y.items))
           [] x.t = "Include" -> StrCmp(x.path, y.path)
           [] x.t = "Unit" -> "Equal"

\* derive(PartialOrd) for Value.
ValuePartialCmp(x, y) ==
    IF x.t # y.t THEN Some(OrdOf(Discriminant(x), Discriminant(y)))
    ELSE CASE x.t = "Bool" -> Some(OrdOf(BoolRank(x.b), BoolRank(y.b)))
           [] x.t = "Map" -> MapPartialCmp(x, y)
           [] x.t = "Struct" -> StructPartialCmp(x, y)
           [] x.t = "Number" -> NumberPartialCmp(x.num, y.num)
           [] x.t = "Option" -> OptionPartialCmp(x.some, y.some)
           [] x.t = "String" -> Some(StrCmp(x.s, y.s))
           [] x.t = "Seq" -> IterPartialCmp("Item", x.items, y.items)
           [] x.t = "Tuple" ->
                ThenPartialCmp(Some(OptionStrCmp(x.name, y.name)),
                               IterPartialCmp("Item", x.items, y.items))
           [] x.t = "Include" -> Some(StrCmp(x.path, y.path))
           [] x.t = "Unit" -> Some("Equal")

(***************************************************************************)
(* Comparing two values: a pair of operands is drawn and eq, cmp,          *)
(* partial_cmp and hash are applied to it.                                 *)
(***************************************************************************)
MaxEntries == 2

FieldNames == {<<"a">>, <<"b">>}

Leafs == {VInteger(1), VInteger(2)}

NoKeyTwice(entries) ==
    \A i, j \in 1..Len(entries) : entries[i].k = entries[j].k => i = j

\* The entry lists an IndexMap can hold, keyed by names or by strings.
FieldLists ==
    {fl \in SeqsUpTo([k : FieldNames, v : Leafs], MaxEntries) : NoKeyTwice(fl)}

EntryLists ==
    {[i \in 1..Len(fl) |-> Entry(VString(fl[i].k), fl[i].v)] : fl \in FieldLists}

MapValues == {VMap(el) : el \in EntryLists}

StructValues ==
    {VStruct(n, p, fl) : n \in {None, Some(<<"S">>), Some(<<"T">>)},
                         p \in {None, Some(<<"p">>)},
                         fl \in {g \in FieldLists : Len(g) <= 1}
                                   \cup {<<Entry(<<"a">>, VInteger(1)),
                                           Entry(<<"b">>, VInteger(2))>>,
                                         <<Entry(<<"b">>, VInteger(2)),
                                           Entry(<<"a">>, VInteger(1))>>}}

FloatValues ==
    {FloatNaN(0), FloatNaN(1), FloatInfinity(TRUE), FloatInfinity(FALSE),
     FloatNegZero, VFloat(0, 0), VFloat(-15, -1), VFloat(5, -1), VFloat(2, 0),
     VFloat(3, 1)}

OtherValues ==
    {VBool(FALSE), VBool(TRUE), VInteger(-1), VInteger(2), VOptionNone,
     VOptionSome(VInteger(2)), VString(<<"a">>), VString(<<"a", "b">>),
     VSeq(<<>>), VSeq(<<VInteger(2)>>), VTuple(None, <<>>),
     VTuple(Some(<<"a">>), <<VFloat(2, 0)>>), VInclude(<<"p">>), VUnit}

ValueSamples == MapValues \cup StructValues \cup FloatValues \cup OtherValues

InitValues ==
    /\ operands \in ValueSamples \X ValueSamples
    /\ compared = NotRun
    /\ tokens = <<>>
    /\ parsed = NotRun
    /\ fs = <<>>
    /\ root = <<>>
    /\ loaded = NotRun
    /\ input = <<>>
    /\ lexed = NotRun

IsNumber(v) == v.t = "Number"

\* x == y, x.cmp(&y), x.partial_cmp(&y), and for two numbers what each
\* writes to a Hasher.
Compare ==
    /\ ~compared.done
    /\ compared' =
           [done |-> TRUE,
            eq |-> ValueEq(operands[1], operands[2]),
            cmp |-> ValueCmp(operands[1], operands[2]),
            partial_cmp |-> ValuePartialCmp(operands[1], operands[2]),
            hash |-> IF IsNumber(operands[1]) /\ IsNumber(operands[2])
                     THEN <<NumberHash(operands[1].num),
                            NumberHash(operands[2].num)>>
                     ELSE None]
    /\ UNCHANGED <<tokens, parsed, fs, root, loaded, input, lexed, operands>>

NextValues == Compare

SpecValues == InitValues /\ [][NextValues]_vars


(***************************************************************************)
(* Claims about equality, ordering and hashing.                            *)
(***************************************************************************)
Both(kind) ==
    /\ compared.done
    /\ operands[1].t = kind
    /\ operands[2].t = kind

\* C13: two Maps are equal exactly when their insertion-ordered sequences
\* of (key, value) pairs are identical (same length, pairwise-equal entries
\* in the same order).
C13_MapsEqualIffSameSequence ==
    Both("Map") =>
        (compared.eq <=> operands[1].entries = operands[2].entries)

\* C14: for two Structs cmp returns Equal exactly when they are equal, and
\* cmp and partial_cmp give the same answer.
C14_StructOrderingAgreesWithEquality ==
    Both("Struct") =>
        /\ (compared.cmp = "Equal") <=> compared.eq
        /\ compared.eq <=> operands[1] = operands[2]
        /\ compared.partial_cmp = Some(compared.cmp)

IsFloat(v) == v.t = "Number" /\ v.num.t = "Float"

IsNaN(v) == IsFloat(v) /\ is_nan(v.num)

Reverse(o) ==
    CASE o = "Less" -> "Greater" [] o = "Greater" -> "Less" [] OTHER -> o

BothFloats == compared.done /\ IsFloat(operands[1]) /\ IsFloat(operands[2])

\* C15: for Floats, NaN equals NaN, NaN is less than every non-NaN value
\* including negative infinity, two NaNs hash identically, and cmp is a
\* total order consistent with equality that never panics.
C15_FloatNaNOrderedAndHashed ==
    BothFloats =>
        /\ compared.cmp \in {"Less", "Equal", "Greater"}
        /\ compared.partial_cmp = Some(compared.cmp)
        /\ (compared.cmp = "Equal") <=> compared.eq
        /\ ValueCmp(operands[2], operands[1]) = Reverse(compared.cmp)
        /\ \A h \in FloatValues :
               /\ ValueCmp(operands[2], h) = "Less"
                      /\ compared.cmp \in {"Less", "Equal"}
                  => ValueCmp(operands[1], h) = "Less"
               /\ ValueCmp(operands[2], h) = "Equal" /\ compared.cmp = "Equal"
                  => ValueCmp(operands[1], h) = "Equal"
        /\ IsNaN(operands[1]) /\ IsNaN(operands[2]) =>
               compared.eq /\ compared.hash[1] = compared.hash[2]
        /\ IsNaN(operands[1]) /\ ~IsNaN(operands[2]) =>
               ~compared.eq /\ compared.cmp = "Less"

C15_Witness ==
    /\ BothFloats
    /\ operands[1] = FloatNaN(0)
    /\ operands[2] = FloatInfinity(TRUE)
    /\ compared.cmp = "Less"


(***************************************************************************)
(* Claims about recovery and diagnostics of the parser.                    *)
(***************************************************************************)
\* The kinds of token value parses as a struct or tuple, a map, a sequence,
\* a string, a number or a directive.
ConstructKinds ==
    {"Ident", "LeftParen", "LeftBrace", "LeftBracket", "String", "Number",
     "Hash"}

FailedConstruct(c) == c.arm = "err" /\ c.kind \in ConstructKinds

IsEndOfInput(e) == e.msg = <<"Expected end of input.">>

EndOfInputReports == {i \in 1..Len(parsed.errors) : IsEndOfInput(parsed.errors[i])}

\* C17: parse appends the Expected end of input diagnostic exactly once, as
\* the last one, when the cursor is not on the end-of-input token after the
\* top-level value has been parsed, and never when it is on it.
C17_EndOfInputReportedOnce ==
    parsed.done /\ ~parsed.panic =>
        IF KindAt(parsed.current) = "Eof"
        THEN EndOfInputReports = {}
        ELSE EndOfInputReports = {Len(parsed.errors)}

\* [1] 1: the value ends before a Number, and an input that ends on Eof.
C17_Witness ==
    /\ parsed.done
    /\ ~parsed.panic
    /\ KindAt(parsed.current) = "Number"
    /\ parsed.value = VSeq(<<VInteger(1)>>)
    /\ EndOfInputReports = {1}


SpanAt(i) == tokens[i + 1].span

\* The value calls that failed for a closing delimiter that was not there:
\* every failed sequence (seq has no other Err once it is on a [), and the
\* structs whose report carries the note of structure's closing check.
MissingCloser(c) ==
    /\ c.arm = "err"
    /\ \/ c.kind = "LeftBracket"
       \/ /\ c.kind \in {"Ident", "LeftParen"}
          /\ c.failure[1].note = Some("Expected ) at end of struct")

\* C18: when the closing delimiter of a struct or of a sequence is missing,
\* the diagnostic recorded for it has one label on the offending token and
\* one label at the offset where that struct or sequence began, and the
\* value of the construct is Unit.
C18_MissingCloserLabelsAndUnit ==
    parsed.done =>
        \A i \in 1..Len(parsed.values) :
            LET c == parsed.values[i]
                labels == c.failure[1].labels
            IN  MissingCloser(c) =>
                    /\ c.val = VUnit
                    /\ parsed.errors[c.errs] = c.failure[1]
                    /\ Len(labels) = 2
                    /\ labels[1].start = SpanAt(c.stopped).start
                    /\ labels[1].end = SpanAt(c.stopped).end
                    /\ labels[2].start = SpanAt(c.at).start
                    /\ labels[2].end = SpanAt(c.at).start
                    /\ KindAt(c.stopped) #
                           (IF c.kind = "LeftBracket" THEN "RightBracket"
                            ELSE "RightParen")

\* A struct that is not the first token and ends unclosed.
C18_Witness ==
    /\ parsed.done
    /\ \E i \in 1..Len(parsed.values) :
          /\ MissingCloser(parsed.values[i])
          /\ parsed.values[i].kind \in {"Ident", "LeftParen"}
          /\ parsed.values[i].at > 0
          /\ parsed.values[i].stopped > parsed.values[i].at


\* The kinds of token a value can start with.
ValueStarts ==
    {"Ident", "LeftParen", "LeftBrace", "LeftBracket", "False", "True",
     "None", "Number", "String", "Hash"}

\* values[i] is a sequence whose last element (the value call that returned
\* just before it) is followed by the start of another value and no comma.
MissingCommaIn(i) ==
    /\ i > 1
    /\ parsed.values[i].kind = "LeftBracket"
    /\ parsed.values[i - 1].at > parsed.values[i].at
    /\ parsed.values[i - 1].end > parsed.values[i - 1].at
    /\ KindAt(parsed.values[i - 1].end) \in ValueStarts

\* C19: in a sequence a missing comma between elements is treated as the end
\* of the sequence rather than an error: the sequence itself raises no
\* diagnostic, and the remaining tokens are left for the enclosing context.
C19_MissingCommaEndsSilently ==
    parsed.done =>
        \A i \in 1..Len(parsed.values) :
            MissingCommaIn(i) =>
                /\ parsed.values[i].arm = "ok"
                /\ parsed.values[i].errs = parsed.values[i - 1].errs
                /\ parsed.values[i].end >= parsed.values[i - 1].end

\* C19 as the code has it: a missing comma between elements ends the reading
\* of elements, and the sequence itself then raises the one diagnostic of
\* its missing ], found the next token; its value is Unit and the remaining
\* tokens are left for the enclosing context.
C19_MissingCommaIsMissingBracket ==
    parsed.done =>
        \A i \in 1..Len(parsed.values) :
            LET c == parsed.values[i] IN
            MissingCommaIn(i) =>
                /\ c.arm = "err"
                /\ c.failure[1].note = Some("Expected ] at end of list")
                /\ c.failure[1].offset = SpanAt(parsed.values[i - 1].end).start
                /\ c.errs = parsed.values[i - 1].errs + 1
                /\ parsed.errors[c.errs] = c.failure[1]
                /\ c.val = VUnit
                /\ c.end = parsed.values[i - 1].end
                /\ i = Len(parsed.values) /\ ~parsed.panic =>
                       /\ Len(parsed.errors) = c.errs + 1
                       /\ IsEndOfInput(parsed.errors[c.errs + 1])

\* [1 1]: one sequence, one element read, the second Number left.
C19_Witness ==
    /\ parsed.done
    /\ ~parsed.panic
    /\ Len(parsed.values) = 2
    /\ MissingCommaIn(2)
    /\ parsed.values[1].val = VInteger(1)
    /\ KindAt(parsed.current) = "Number"
    /\ parsed.value = VUnit
    /\ Len(parsed.errors) = 2


(***************************************************************************)
(* String literals from their text: a body between two quotes is scanned   *)
(* and parsed.                                                             *)
(***************************************************************************)
StringChars == {"\\", "\"", "n", "r", "t", "0", "q", "a"}

MaxString == 3

StringSources ==
    {<<"\"">> \o body \o <<"\"">> : body \in SeqsUpTo(StringChars, MaxString)}

InitStrings ==
    /\ input \in StringSources
    /\ lexed = NotRun
    /\ tokens = <<>>
    /\ parsed = NotRun
    /\ fs = <<>>
    /\ root = <<>>
    /\ loaded = NotRun
    /\ operands = <<>>
    /\ compared = NotRun

SpecStrings == InitStrings /\ [][NextSource]_vars

\* The text came out of the lexer as one String token.
OneStringToken ==
    /\ parsed.done
    /\ Len(tokens) = 2
    /\ tokens[1].kind = "String"
    /\ Len(tokens[1].text) >= 2

Body == SubSeq(tokens[1].text, 2, Len(tokens[1].text) - 1)

\* What the claim says a body decodes to, read pair by pair: a backslash
\* and the character after it give the character the escape stands for, or
\* nothing when the escape is unknown.
RECURSIVE Decoded(_)
Decoded(b) ==
    IF b = <<>> THEN <<>>
    ELSE IF Head(b) # "\\" THEN <<Head(b)>> \o Decoded(Tail(b))
    ELSE IF Len(b) = 1 THEN <<>>
    ELSE (CASE b[2] = "n" -> <<"<LF>">>
            [] b[2] = "r" -> <<"<CR>">>
            [] b[2] = "t" -> <<"<TAB>">>
            [] b[2] = "\\" -> <<"\\">>
            [] b[2] = "\"" -> <<"\"">>
            [] b[2] = "0" -> <<"<NUL>">>
            [] OTHER -> <<>>) \o Decoded(SubSeq(b, 3, Len(b)))

\* The characters of the unknown escapes of a body, in order.
RECURSIVE UnknownEscapes(_)
UnknownEscapes(b) ==
    IF b = <<>> THEN <<>>
    ELSE IF Head(b) # "\\" THEN UnknownEscapes(Tail(b))
    ELSE IF Len(b) = 1 THEN <<>>
    ELSE (IF b[2] \in {"n", "r", "t", "\\", "\"", "0"} THEN <<>>
          ELSE <<b[2]>>) \o UnknownEscapes(SubSeq(b, 3, Len(b)))

\* C20: decoding a string token maps the escapes \n, \r, \t, \\, \" and \0
\* to their single characters and copies every other character unchanged; a
\* backslash followed by any other character records one diagnostic,
\* contributes nothing to the result, and decoding goes on with the rest.
C20_StringDecoding ==
    OneStringToken =>
        /\ ~parsed.panic
        /\ parsed.value = VString(Decoded(Body))
        /\ Len(parsed.errors) = Len(lexed.errors) + Len(UnknownEscapes(Body))
        /\ \A i \in 1..Len(UnknownEscapes(Body)) :
               parsed.errors[Len(lexed.errors) + i].msg =
                   <<"unknown character escape", UnknownEscapes(Body)[i]>>

\* "\qn": an unknown escape, then a character that is kept.
C20_Witness ==
    /\ OneStringToken
    /\ Body = <<"\\", "q", "n">>
    /\ parsed.value = VString(<<"n">>)
    /\ Len(parsed.errors) = 1


(***************************************************************************)
(* Claims about the lexer.                                                 *)
(***************************************************************************)
\* How many backslashes stand directly before position i of a text.
RECURSIVE BackslashesBefore(_, _)
BackslashesBefore(text, i) ==
    IF i > 1 /\ text[i - 1] = "\\" THEN 1 + BackslashesBefore(text, i - 1)
    ELSE 0

\* The quotes after the first character that an even number of backslashes
\* precede.
ClosingQuotes(text) ==
    {i \in 2..Len(text) :
        text[i] = "\"" /\ BackslashesBefore(text, i) % 2 = 0}

\* C21: the lexer ends a string at the first quote preceded by an even
\* number of backslashes; a literal whose content ends with an escaped
\* backslash is one String token ending at that quote and decodes to text
\* ending in one backslash.
C21_StringEndsAtUnescapedQuote ==
    /\ lexed.done /\ ~lexed.panic /\ ClosingQuotes(input) # {} =>
          /\ tokens[1].kind = "String"
          /\ tokens[1].span.start = 0
          /\ tokens[1].span.end = Min(ClosingQuotes(input))
          /\ tokens[1].text = SubSeq(input, 1, Min(ClosingQuotes(input)))
    /\ parsed.done /\ input = <<"\"", "a", "\\", "\\", "\"">> =>
          Clean(parsed) /\ parsed.value = VString(<<"a", "\\">>)


\* C22: for every input text scan terminates (it returns; a panic is no
\* return) and its token list contains exactly one end-of-input token,
\* which is the last token.
C22_ScanEndsWithOneEof ==
    lexed.done =>
        /\ ~lexed.panic
        /\ lexed.tokens # <<>>
        /\ \A i \in 1..Len(lexed.tokens) :
               lexed.tokens[i].kind = "Eof" <=> i = Len(lexed.tokens)


\* Where the first */ after an opening /* starts, as a set (empty: none).
FirstCommentEnd(text) ==
    LET ends == {i \in 3..(Len(text) - 1) :
                    text[i] = "*" /\ text[i + 1] = "/"}
    IN  IF ends = {} THEN {} ELSE {Min(ends)}

KindsAndTexts(toks) ==
    [i \in 1..Len(toks) |-> <<toks[i].kind, toks[i].text>>]

\* C23: a block comment ends at the first */ after its /*: the characters
\* after that */ are lexed as ordinary tokens, and a /* inside the comment
\* does not open a nested comment.
C23_BlockCommentEndsAtFirstClose ==
    /\ lexed.done /\ Len(input) >= 2 /\ input[1] = "/" /\ input[2] = "*" =>
          \A i \in FirstCommentEnd(input) :
              /\ ~lexed.panic
              /\ KindsAndTexts(lexed.tokens) =
                     KindsAndTexts(
                         Scan(SubSeq(input, i + 2, Len(input))).tokens)
    /\ lexed.done /\ input = BlockCommentText =>
          KindsAndTexts(lexed.tokens) =
              <<<<"Number", <<"1">>>>, <<"Eof", <<>>>>>>


\* C24: for every token scan emits, including the end-of-input token, text
\* equals the slice of the source at the half-open range [span.start,
\* span.end), and the spans of successive tokens are in increasing order and
\* do not overlap.
C24_TextIsSliceAtSpan ==
    lexed.done /\ ~lexed.panic =>
        /\ \A i \in 1..Len(lexed.tokens) :
               /\ lexed.tokens[i].span.start <= lexed.tokens[i].span.end
               /\ lexed.tokens[i].span.end <= Len(input)
               /\ lexed.tokens[i].text =
                      SubSeq(input, lexed.tokens[i].span.start + 1,
                             lexed.tokens[i].span.end)
        /\ \A i \in 1..(Len(lexed.tokens) - 1) :
               lexed.tokens[i].span.end <= lexed.tokens[i + 1].span.start


(***************************************************************************)
(* Further claims about the Loader, checked under SpecLoader.              *)
(***************************************************************************)
\* The file at path parsed to a struct with a prototype, and both it and its
\* prototype file were resolved, the prototype to a value that is no struct.
MismatchedPrototype(path) ==
    /\ loaded.done
    /\ path \in DOMAIN loaded.loader.cache
    /\ LoadFile(fs, path).value.t = "Struct"
    /\ LoadFile(fs, path).value.prototype # None
    /\ Normalize(LoadFile(fs, path).value.prototype[1])
          \in DOMAIN loaded.loader.cache
    /\ Cached(Normalize(LoadFile(fs, path).value.prototype[1])).t # "Struct"

\* C25: when the prototype file of a struct resolves to a value that is not
\* a struct, load still succeeds, the composing struct keeps exactly its own
\* fields with prototype cleared, the rest of the tree is still resolved,
\* and a diagnostic for the mismatch is among the returned diagnostics.
C25_PrototypeMismatchReported ==
    \A path \in Paths :
        MismatchedPrototype(path) =>
            LET S == LoadFile(fs, path).value
                R == Cached(path)
            IN /\ R.t = "Struct"
               /\ R.name = S.name
               /\ R.prototype = None
               /\ Keys(R.fields) = Keys(S.fields)
               /\ \A i \in 1..Len(S.fields) :
                      OwnValue(S.fields[i].v, R.fields[i].v)
               /\ loaded.st = "ok" =>
                      \E i \in 1..Len(loaded.errors) :
                          \A j \in 1..Len(ParsedErrors) :
                              loaded.errors[i] # ParsedErrors[j]


\* C26: every path pushed on the resolution stack is popped on every exit of
\* its load, including exits by an I/O error in the file itself or in a file
\* it references: when Loader::load returns, by success or by error, the
\* stack holds what it held at entry (for the load of root: nothing).
C26_StackRestoredOnEveryExit ==
    loaded.done /\ loaded.st \in {"ok", "io"} =>
        loaded.loader.resolve_stack = <<>>


(***************************************************************************)
(* Further claims about the parser, checked under SpecParser.              *)
(***************************************************************************)
EofAt == Len(tokens) - 1

\* C27: parse terminates for every token list that ends in one end-of-input
\* token: a value call that succeeds has consumed at least one token, every
\* nested value call and every loop iteration starts on a later token than
\* any value call before it, the cursor never decreases, and it never moves
\* past the end-of-input token.
C27_ParseMakesProgress ==
    parsed.done =>
        /\ parsed.current <= EofAt
        /\ \A i \in 1..Len(parsed.values) :
               LET c == parsed.values[i] IN
               /\ c.at <= c.stopped
               /\ c.stopped <= c.end
               /\ c.end <= parsed.current
               /\ c.arm = "ok" => c.end > c.at
               /\ \A j \in 1..Len(parsed.values) :
                      /\ j # i => parsed.values[j].at # c.at
                      /\ j > i => parsed.values[j].end >= c.end

\* A parse without reports in which value was called at least three times,
\* one call inside another.
C27_Witness ==
    /\ parsed.done
    /\ ~parsed.panic
    /\ parsed.errors = <<>>
    /\ Len(parsed.values) >= 3
    /\ parsed.current = EofAt
    /\ \E i \in 1..Len(parsed.values) : parsed.values[i].at > 1


\* The tokens from index i on are # include ( followed by a token that is
\* no String.
IncludeWithoutString(i) ==
    /\ i + 3 <= Len(tokens)
    /\ tokens[i].kind = "Hash"
    /\ tokens[i + 1].kind = "Ident"
    /\ tokens[i + 1].text = T_include
    /\ tokens[i + 2].kind = "LeftParen"
    /\ tokens[i + 3].kind # "String"

\* C28: when a String token is required as the path argument of a directive
\* and the next token is not a String, as in #include(42), the parser
\* records a diagnostic and yields Unit for the construct: the parse does
\* not panic, and the value call on the directive reports once, returns
\* Unit and leaves no text of another token decoded as the path.
C28_NonStringPathReported ==
    parsed.done =>
        \A k \in 1..Len(parsed.values) :
            LET c == parsed.values[k] IN
            IncludeWithoutString(c.at + 1) =>
                /\ ~parsed.panic
                /\ c.arm = "err"
                /\ c.val = VUnit
                /\ c.errs = c.reported + 1


\* The token list of a source text made of the given items alone.
OnlyTokens(items) == tokens = Lay(items)

\* C29: the input {} parses to an empty Map with no diagnostics, just as []
\* parses to an empty Seq and () parses to Unit.
C29_EmptyMapParses ==
    parsed.done =>
        /\ OnlyTokens(<<LC, RC>>) =>
               ~parsed.panic /\ parsed.value = VMap(<<>>) /\ parsed.errors = <<>>
        /\ OnlyTokens(<<LB, RB>>) =>
               ~parsed.panic /\ parsed.value = VSeq(<<>>) /\ parsed.errors = <<>>
        /\ OnlyTokens(<<LP, RP>>) =>
               ~parsed.panic /\ parsed.value = VUnit /\ parsed.errors = <<>>


\* The source identifiers a report carries: its own and those of its labels.
SourceIds(e) == {e.source} \cup {e.labels[i].source : i \in 1..Len(e.labels)}

\* C30: every diagnostic produced while parsing a source, including the
\* end-of-input one, carries that source's identifier in its report and in
\* each of its labels.
C30_ReportsCarrySourceId ==
    parsed.done =>
        \A i \in 1..Len(parsed.errors) : SourceIds(parsed.errors[i]) = {SourceName}

====
